---- MODULE Spec2Model ----
(***************************************************************************)
(* Model of the easybake_dashboard server: the Last.fm rate limiter and    *)
(* artist cache, the top-charts cache, and the game / movie / album feed   *)
(* pipelines with their HTTP endpoints.                                    *)
(*                                                                         *)
(* Each subsystem has its own specification over the shared variables:     *)
(*   SpecRate    rateLimit() of lastfm.ts, called by concurrent callers    *)
(***************************************************************************)
EXTENDS Integers, Sequences, FiniteSets, TLC

VARIABLES
    now,                \* Date.now(), in ms
    requestTimestamps,  \* lastfm.ts: const requestTimestamps: number[]
    rl,                 \* the calls of rateLimit(): position and history
    cache,              \* lastfm.ts: const cache = new Map<string, ArtistInfo>()
    runs,               \* the calls of fetchAllArtistPopularity in progress
    hist,               \* history of the artist lookups (calls issued, ...)
    chartsCache,        \* lastfm.ts: let chartsCache: { data, timestamp } | null
    chartReqs,          \* the calls of fetchTopCharts in progress
    chartsHist,         \* history of fetchTopCharts (last response, last store)
    dismissed,          \* db.ts: the rows <<category, item_id>> of dismissed_cards
    feedCall,           \* the feed function the last handler ran: inputs and result
    resp,               \* the answer of the last handler, until it is sent
    today,              \* the server's local calendar date: new Date()
    weekCall,           \* the last call of getReleaseWeek / getUpcomingFriday
    gamesRun,           \* the handler of /api/gaming/releases, stage by stage
    topCall,            \* the last derivation of topAlbums: genre lists and result
    itunes,             \* one call of fetchITunesAlbumInfo: the queries made so far
    mb,                 \* rateLimitedFetch: the clock, lastRequestTime, its callers
    pool,               \* db.ts: whether DATABASE_URL gave the process a connection pool
    dismissLog,         \* history: the POSTs to /api/dismissed that were accepted or wrote
    watched,            \* the watched-items store (file or table) and the last answer about it
    oauth,              \* index.ts: pendingSpotifyState, and the history of the OAuth routes
    player              \* Music.tsx: the preview player, its audio elements and pending work

rateVars == <<requestTimestamps, rl>>
artistVars == <<cache, runs, hist>>
chartVars == <<chartsCache, chartReqs, chartsHist>>
feedVars == <<dismissed, feedCall, resp>>
dateVars == <<today, weekCall>>
vars == <<now, requestTimestamps, rl, cache, runs, hist,
          chartsCache, chartReqs, chartsHist, dismissed, feedCall, resp,
          today, weekCall, gamesRun,
          topCall, itunes, mb, pool, dismissLog, watched, oauth, player>>

\* the variables of the later sections, and for each of them the
\* variables that an action on it alone leaves as they are
earlyVars == <<now, rateVars, artistVars, chartVars, feedVars, dateVars, gamesRun>>
lateVars == <<topCall, itunes, mb, pool, dismissLog, watched, oauth, player>>
allButTopCall == <<earlyVars, itunes, mb, pool, dismissLog, watched, oauth, player>>
allButItunes == <<earlyVars, topCall, mb, pool, dismissLog, watched, oauth, player>>
allButMb == <<earlyVars, topCall, itunes, pool, dismissLog, watched, oauth, player>>
allButPool == <<earlyVars, topCall, itunes, mb, dismissLog, watched, oauth, player>>
allButDismissLog == <<earlyVars, topCall, itunes, mb, pool, watched, oauth, player>>
allButWatched == <<earlyVars, topCall, itunes, mb, pool, dismissLog, oauth, player>>
allButOauth == <<earlyVars, topCall, itunes, mb, pool, dismissLog, watched, player>>
allButPlayer == <<earlyVars, topCall, itunes, mb, pool, dismissLog, watched, oauth>>
lateButDismissLog == <<topCall, itunes, mb, pool, watched, oauth, player>>

\* null / undefined of a string-valued field
Null == "null"

\* null / undefined of a number-valued field
NoNum == -1

(***************************************************************************)
(* Bounds of the model                                                     *)
(***************************************************************************)
NumCalls == 7           \* calls of rateLimit() in one behaviour
MaxRateTicks == 3       \* clock steps of the rate-limiter specification
NumSlots == 2           \* album-feed requests that may be in progress at once
MaxRuns == 3            \* calls of fetchAllArtistPopularity in one behaviour
MaxAlbums == 2          \* albums in one album list
MaxChartTicks == 3      \* clock steps of the charts specification
MaxTitles == 5          \* titles in the list of upcoming movies
MaxPageSize == 2        \* titles on the first page of now-playing movies
MaxPages == 2           \* pages of now-playing movies
MaxGames == 2           \* games in the list of today's releases
MaxReleases == 4        \* releases MusicBrainz lists for the Friday, albums specification
MaxChartRank == 3       \* albums Last.fm lists for one genre, topAlbums specification
MaxDays == 130          \* days that pass in the dates specification

(***************************************************************************)
(* Generic helpers                                                         *)
(***************************************************************************)
Range(s) == {s[i] : i \in DOMAIN s}

Min(a, b) == IF a <= b THEN a ELSE b

(***************************************************************************)
(* lastfm.ts: rateLimit                                                    *)
(***************************************************************************)
\* the window of `requestTimestamps[0] < now - 1000` and `oldest + 1000 - now`
RateWindowMs == 1000

\* the capacity of `requestTimestamps.length >= 5`
RateCapacity == 5

\* granularity of the clock in the rate-limiter specification
RateTickMs == RateWindowMs \div 2

\* while (requestTimestamps.length > 0 && requestTimestamps[0] < now - 1000) shift()
RECURSIVE PruneOld(_, _)
PruneOld(ts, t) ==
    IF Len(ts) > 0 /\ ts[1] < t - RateWindowMs THEN PruneOld(Tail(ts), t) ELSE ts

\* a limiter that lets one call too many through (capacity test > instead of >=)
AtCapacityOffByOne(ts) == Len(ts) > RateCapacity

\* if (requestTimestamps.length >= 5)
AtCapacity(ts) == Len(ts) >= RateCapacity

\* const waitMs = oldest + 1000 - now
WaitMs(ts, t) == ts[1] + RateWindowMs - t

RlIdle == [pc |-> "idle", wakeAt |-> 0, at |-> 0, suspended |-> FALSE]

\* The synchronous part of rateLimit(): prune, then either record at once or
\* suspend on setTimeout(resolve, waitMs).  Calls are numbered in call order.
RateLimitEnter(i) ==
    /\ rl[i].pc = "idle"
    /\ \A j \in 1..(i - 1) : rl[j].pc # "idle"
    /\ LET pruned == PruneOld(requestTimestamps, now) IN
        IF AtCapacity(pruned)
        THEN /\ requestTimestamps' = pruned
             /\ rl' = [rl EXCEPT ![i] = [pc |-> "waiting",
                                         wakeAt |-> now + WaitMs(pruned, now),
                                         at |-> 0, suspended |-> TRUE]]
        ELSE /\ requestTimestamps' = Append(pruned, now)
             /\ rl' = [rl EXCEPT ![i] = [pc |-> "done", wakeAt |-> 0,
                                         at |-> now, suspended |-> FALSE]]
    /\ UNCHANGED <<now, artistVars, chartVars, feedVars, dateVars, gamesRun, lateVars>>

\* The timer has fired: requestTimestamps.push(Date.now()), with no second look
\* at the window.
RateLimitResume(i) ==
    /\ rl[i].pc = "waiting"
    /\ now >= rl[i].wakeAt
    /\ requestTimestamps' = Append(requestTimestamps, now)
    /\ rl' = [rl EXCEPT ![i].pc = "done", ![i].at = now]
    /\ UNCHANGED <<now, artistVars, chartVars, feedVars, dateVars, gamesRun, lateVars>>

\* Time passes (a timer may fire late, never early).
RateTick ==
    /\ now + RateTickMs <= MaxRateTicks * RateTickMs
    /\ now' = now + RateTickMs
    /\ UNCHANGED <<rateVars, artistVars, chartVars, feedVars, dateVars, gamesRun, lateVars>>

(***************************************************************************)
(* lastfm.ts: fetchArtistInfo, fetchAllArtistPopularity                    *)
(***************************************************************************)
\* artist names as MusicBrainz spells them: two spellings of one artist
ArtistNames == {"ABBA", "abba"}

\* String.prototype.toLowerCase on the names of the model
Lower(a) ==
    CASE a = "ABBA" -> "abba"
      [] a = "GOLD" -> "gold"
      [] a = "Gold" -> "gold"
      [] a = "PC (Microsoft Windows)" -> "pc (microsoft windows)"
      [] a = "Mac" -> "mac"
      [] a = "Linux" -> "linux"
      [] a = "Nintendo Switch" -> "nintendo switch"
      [] a = "PlayStation 5" -> "playstation 5"
      [] a = "Xbox One" -> "xbox one"
      [] a \in {"Doom", "DOOM"} -> "doom"
      [] a \in {"Hades", "HADES"} -> "hades"
      [] a = "Beck" -> "beck"
      [] a = "Cher" -> "cher"
      [] OTHER -> a

\* a store listing's spelling of a game's name, in capitals
Upper(a) ==
    CASE a = "Doom" -> "DOOM"
      [] a = "Hades" -> "HADES"
      [] OTHER -> a

ArtistKeys == {Lower(a) : a \in ArtistNames}

\* a cache keyed by the name as spelled (no toLowerCase)
CacheKeyCaseSensitive(artist) == artist

\* const cacheKey = artist.toLowerCase()
CacheKey(artist) == Lower(artist)

\* const nullResult: ArtistInfo = { listeners: null, genre: null }
NullResult == [listeners |-> NoNum, genre |-> Null]

\* Number.NaN
NaN == -2

\* parseInt(listeners, 10) on the strings of the model
ParseInt(str) ==
    CASE str = "500" -> 500
      [] str = "90" -> 90
      [] OTHER -> NaN

\* what one artist.getinfo call can come to: a failure, or a 2xx body with
\* artist.stats.listeners and artist.tags.tag[0].name (Null: field absent)
ArtistFailures ==
    { [kind |-> k, listeners |-> Null, tag |-> Null] : k \in {"neterr", "non2xx", "timeout"} }

ArtistBodies ==
    { [kind |-> "ok", listeners |-> "500", tag |-> "rock"],
      [kind |-> "ok", listeners |-> "90", tag |-> Null],
      [kind |-> "ok", listeners |-> "n/a", tag |-> "pop"] }

ArtistOutcomes == ArtistFailures \cup ArtistBodies

\* fetchArtistInfo, from the response to the value cached and returned
ArtistInfoOf(outcome) ==
    IF outcome.kind # "ok"
    THEN NullResult
    ELSE LET count == IF outcome.listeners # Null /\ outcome.listeners # ""
                      THEN ParseInt(outcome.listeners) ELSE NoNum
             listenersResult == IF count # NoNum /\ count # NaN THEN count ELSE NoNum
         IN [listeners |-> listenersResult, genre |-> outcome.tag]

\* fetchAllArtistPopularity: the first spelling of every artist, in album order
RECURSIVE UniqueArtistsFrom(_, _)
UniqueArtistsFrom(artists, seen) ==
    IF artists = << >> THEN << >>
    ELSE LET key == Lower(Head(artists)) IN
         IF key \in seen
         THEN UniqueArtistsFrom(Tail(artists), seen)
         ELSE <<Head(artists)>> \o UniqueArtistsFrom(Tail(artists), seen \cup {key})

UniqueArtists(artists) == UniqueArtistsFrom(artists, {})

AlbumLists == UNION {[1..n -> ArtistNames] : n \in 0..MaxAlbums}

RunIdle == [pc |-> "idle", tasks |-> << >>]

HistInit ==
    [calls |-> [k \in ArtistKeys |-> 0],   \* artist.getinfo calls issued per name
     overlapped |-> FALSE,                 \* two runs have been in progress at once
     failed |-> {},                        \* names for which a failure was cached
     first |-> [k \in ArtistKeys |->        \* the first lookup of a name to return
                  [known |-> FALSE, artist |-> k, info |-> NullResult]],
     started |-> 0]                        \* runs started so far

\* what had happened to the name when a lookup of it started
Prior(artist) ==
    IF Lower(artist) \in hist.failed THEN "failed"
    ELSE IF hist.first[Lower(artist)].known THEN "returned"
    ELSE "none"

\* One call of fetchArtistInfo up to its first await: the cache test, and on a
\* miss the call of rateLimit() the lookup then awaits.
StartTask(artist) ==
    IF CacheKey(artist) \in DOMAIN cache
    THEN [artist |-> artist, pc |-> "done", hit |-> TRUE,
          info |-> cache[CacheKey(artist)], prior |-> Prior(artist)]
    ELSE [artist |-> artist, pc |-> "limit", hit |-> FALSE,
          info |-> NullResult, prior |-> Prior(artist)]

\* what a finished lookup adds to the history
NoteFirst(first, task) ==
    IF task.pc = "done" /\ ~first[Lower(task.artist)].known
    THEN [first EXCEPT ![Lower(task.artist)] =
             [known |-> TRUE, artist |-> task.artist, info |-> task.info]]
    ELSE first

RECURSIVE NoteFirstAll(_, _)
NoteFirstAll(first, tasks) ==
    IF tasks = << >> THEN first
    ELSE NoteFirstAll(NoteFirst(first, Head(tasks)), Tail(tasks))

\* fetchAllArtistPopularity(apiKey, albums) up to `await Promise.allSettled`:
\* uniqueArtists.map starts every lookup, each running to its first await.
\* A request takes the lowest slot that is not busy.
StartRun(r, albums) ==
    /\ runs[r].pc = "idle"
    /\ \A q \in 1..(r - 1) : runs[q].pc = "running"
    /\ hist.started < MaxRuns
    /\ LET tasks == [i \in DOMAIN UniqueArtists(albums) |->
                        StartTask(UniqueArtists(albums)[i])]
       IN /\ runs' = [runs EXCEPT ![r] = [pc |-> "running", tasks |-> tasks]]
          /\ hist' = [hist EXCEPT
                         !.started = @ + 1,
                         !.overlapped = @ \/ \E q \in 1..NumSlots : runs[q].pc = "running",
                         !.first = NoteFirstAll(@, tasks)]
    /\ UNCHANGED <<now, rateVars, cache, chartVars, feedVars, dateVars, gamesRun, lateVars>>

\* rateLimit() has returned: the lookup issues its artist.getinfo request.
IssueCall(r, t) ==
    /\ runs[r].pc = "running"
    /\ t \in DOMAIN runs[r].tasks
    /\ runs[r].tasks[t].pc = "limit"
    /\ runs' = [runs EXCEPT ![r].tasks[t].pc = "fetching"]
    /\ hist' = [hist EXCEPT !.calls[Lower(runs[r].tasks[t].artist)] = @ + 1]
    /\ UNCHANGED <<now, rateVars, cache, chartVars, feedVars, dateVars, gamesRun, lateVars>>

\* The request settles: every path of fetchArtistInfo stores its result under
\* the cache key before returning it.
CallSettles(r, t, outcome) ==
    /\ runs[r].pc = "running"
    /\ t \in DOMAIN runs[r].tasks
    /\ runs[r].tasks[t].pc = "fetching"
    /\ LET artist == runs[r].tasks[t].artist
           info == ArtistInfoOf(outcome)
           done == [runs[r].tasks[t] EXCEPT !.pc = "done", !.info = info]
       IN /\ cache' = [k \in DOMAIN cache \cup {CacheKey(artist)} |->
                          IF k = CacheKey(artist) THEN info ELSE cache[k]]
          /\ runs' = [runs EXCEPT ![r].tasks[t] = done]
          /\ hist' = [hist EXCEPT
                         !.failed = IF outcome.kind # "ok"
                                    THEN @ \cup {Lower(artist)} ELSE @,
                         !.first = NoteFirst(@, done)]
    /\ UNCHANGED <<now, rateVars, chartVars, feedVars, dateVars, gamesRun, lateVars>>

\* for (const result of results) map.set(result.value.artist, result.value.info):
\* the map a run returns, from each unique artist (as spelled) to its info
RunResult(r) ==
    [a \in {runs[r].tasks[t].artist : t \in DOMAIN runs[r].tasks}
       |-> runs[r].tasks[CHOOSE t \in DOMAIN runs[r].tasks :
                           runs[r].tasks[t].artist = a].info]

\* Promise.allSettled has every lookup settled: fetchAllArtistPopularity
\* returns RunResult(r), and the slot is free for the next request.
FinishRun(r) ==
    /\ runs[r].pc = "running"
    /\ \A t \in DOMAIN runs[r].tasks : runs[r].tasks[t].pc = "done"
    /\ runs' = [runs EXCEPT ![r] = RunIdle]
    /\ UNCHANGED <<now, rateVars, cache, hist, chartVars, feedVars, dateVars, gamesRun, lateVars>>

(***************************************************************************)
(* lastfm.ts: fetchTopCharts and its cache                                 *)
(***************************************************************************)
\* const CHARTS_CACHE_TTL = 10 * 60 * 1000
CHARTS_CACHE_TTL == 10 * 60 * 1000

\* granularity of the clock in the charts specification
ChartsTickMs == CHARTS_CACHE_TTL \div 2

\* const genres = ['rock', 'electronic', 'hip-hop', 'metal', 'pop', 'indie', 'punk', 'jazz']
Genres == <<"rock", "electronic", "hip-hop", "metal", "pop", "indie", "punk", "jazz">>

\* rank < maxPerGenre && topAlbums.length < 20
TopAlbumsCap == 20

\* an image URL holding Last.fm's placeholder hash 2a96cbd8b46e442fc41c2b86b821562f
Placeholder == "2a96cbd8b46e442fc41c2b86b821562f"

\* fetchTopAlbumsForTag: one ChartAlbum of the list of a tag
ChartAlbum(name, artist, tag) ==
    [name |-> name, artist |-> artist, imageUrl |-> Null, genre |-> tag, releaseDate |-> Null]

NoGenreResults == [g \in 1..Len(Genres) |-> << >>]

\* What the ten list calls of one refresh come to.  A failed call (network
\* error, timeout, non-2xx) yields the empty list.
ChartUpstreams ==
    { [topTracks |-> << >>, topArtists |-> << >>, genreResults |-> NoGenreResults],
      [topTracks |-> << [name |-> "Waterloo", artist |-> "ABBA", imageUrl |-> "img"] >>,
       topArtists |-> << [name |-> "ABBA", imageUrl |-> Placeholder] >>,
       genreResults |-> [NoGenreResults EXCEPT
                           ![1] = << ChartAlbum("Gold", "ABBA", "rock"),
                                     ChartAlbum("Arrival", "ABBA", "rock") >>,
                           ![5] = << ChartAlbum("GOLD", "abba", "pop") >>]],
      [topTracks |-> << [name |-> "Loser", artist |-> "Beck", imageUrl |-> Null] >>,
       topArtists |-> << >>, genreResults |-> NoGenreResults] }

MaxPerGenre(genreResults) ==
    CHOOSE n \in {Len(genreResults[g]) : g \in DOMAIN genreResults} \cup {0} :
        \A g \in DOMAIN genreResults : Len(genreResults[g]) <= n

\* a key that keeps the case of the names
AlbumKeyCaseSensitive(album) == <<album.name, album.artist>>

\* key = `${album.name.toLowerCase()}|${album.artist.toLowerCase()}`
AlbumKey(album) == <<Lower(album.name), Lower(album.artist)>>

\* The round-robin loops of fetchTopCharts, one (rank, genre) position per
\* step, in the order the loops visit them; p counts positions from 0.
RECURSIVE RoundRobin(_, _, _, _)
RoundRobin(genreResults, p, seen, topAlbums) ==
    LET n == Len(Genres)
        rank == (p \div n) + 1
        g == (p % n) + 1
    IN IF rank > MaxPerGenre(genreResults) \/ Len(topAlbums) >= TopAlbumsCap
       THEN topAlbums
       ELSE IF rank > Len(genreResults[g])
       THEN RoundRobin(genreResults, p + 1, seen, topAlbums)
       ELSE LET album == genreResults[g][rank] IN
            IF AlbumKey(album) \in seen
            THEN RoundRobin(genreResults, p + 1, seen, topAlbums)
            ELSE RoundRobin(genreResults, p + 1, seen \cup {AlbumKey(album)},
                            Append(topAlbums, [album EXCEPT !.genre = "", !.releaseDate = Null]))

TopAlbums(genreResults) == RoundRobin(genreResults, 0, {}, << >>)

\* topAlbumsByGenre[genre] = albums, for the genres with a non-empty list
TopAlbumsByGenre(genreResults) ==
    [name \in {Genres[g] : g \in {h \in DOMAIN Genres : Len(genreResults[h]) > 0}} |->
        genreResults[CHOOSE g \in DOMAIN Genres : Genres[g] = name]]

\* the payload before the artwork / release-date backfill
ChartsPayload(up) ==
    [topTracks |-> up.topTracks,
     topAlbums |-> TopAlbums(up.genreResults),
     topArtists |-> up.topArtists,
     topAlbumsByGenre |-> TopAlbumsByGenre(up.genreResults)]

EmptyPayload ==
    [topTracks |-> << >>, topAlbums |-> << >>, topArtists |-> << >>,
     topAlbumsByGenre |-> << >>]

\* !track.imageUrl || track.imageUrl.includes('2a96cbd8b46e442fc41c2b86b821562f')
NeedsArtwork(imageUrl) == imageUrl = Null \/ imageUrl = Placeholder

\* .then((url) => { if (url) item.imageUrl = url })
WithArtwork(items, art) ==
    [i \in DOMAIN items |->
        IF NeedsArtwork(items[i].imageUrl) /\ art[i] # Null
        THEN [items[i] EXCEPT !.imageUrl = art[i]] ELSE items[i]]

\* .then((info) => { if (info.releaseDate) album.releaseDate = info.releaseDate })
WithReleaseDates(albums, dates) ==
    [i \in DOMAIN albums |->
        IF dates[i] # Null THEN [albums[i] EXCEPT !.releaseDate = dates[i]] ELSE albums[i]]

Backfilled(payload, trackArt, artistArt, dates) ==
    [payload EXCEPT !.topTracks = WithArtwork(@, trackArt),
                    !.topArtists = WithArtwork(@, artistArt),
                    !.topAlbums = WithReleaseDates(@, dates)]

NoCharts == [present |-> FALSE, data |-> EmptyPayload, timestamp |-> 0]

\* a cache test that still serves a payload exactly CHARTS_CACHE_TTL old
IsFreshInclusive(c, t) == c.present /\ t - c.timestamp <= CHARTS_CACHE_TTL

\* chartsCache && Date.now() - chartsCache.timestamp < CHARTS_CACHE_TTL
IsFresh(c, t) == c.present /\ t - c.timestamp < CHARTS_CACHE_TTL

\* chartsCache = { data: result, timestamp: Date.now() }
StoreCharts(result, t) == [present |-> TRUE, data |-> result, timestamp |-> t]

\* the Last.fm list calls of one refresh: top tracks, top artists, one per genre
ListCalls == 2 + Len(Genres)

ChartReqIdle == [pc |-> "idle", payload |-> EmptyPayload]

NoChartsCall == [kind |-> "none", data |-> EmptyPayload, listCalls |-> 0]

ChartsHistInit ==
    [\* the call of fetchTopCharts that has just started: whether it was
     \* answered from the cache, with what, and the list calls it issued
     last |-> NoChartsCall,
     \* the last refresh to finish
     refreshed |-> [done |-> FALSE, data |-> EmptyPayload, at |-> 0]]

\* fetchTopCharts up to its first await: a fresh payload is returned at once,
\* otherwise the ten list calls are started.
ChartsStart(q) ==
    /\ chartsHist.last.kind = "none"
    /\ chartReqs[q].pc = "idle"
    /\ \A o \in 1..(q - 1) : chartReqs[o].pc # "idle"
    /\ IF IsFresh(chartsCache, now)
       THEN /\ chartsHist' = [chartsHist EXCEPT
                  !.last = [kind |-> "hit", data |-> chartsCache.data, listCalls |-> 0]]
            /\ UNCHANGED chartReqs
       ELSE /\ chartReqs' = [chartReqs EXCEPT ![q] =
                  [pc |-> "lists", payload |-> EmptyPayload]]
            /\ chartsHist' = [chartsHist EXCEPT
                  !.last = [kind |-> "refresh", data |-> EmptyPayload,
                            listCalls |-> ListCalls]]
    /\ UNCHANGED <<now, rateVars, artistVars, chartsCache, feedVars, dateVars, gamesRun, lateVars>>

\* the event loop moves on from the call that has just started
ChartsYield ==
    /\ chartsHist.last.kind # "none"
    /\ chartsHist' = [chartsHist EXCEPT !.last = NoChartsCall]
    /\ UNCHANGED <<now, rateVars, artistVars, chartsCache, chartReqs, feedVars, dateVars, gamesRun, lateVars>>

\* Promise.all of the list calls has resolved: the payload is derived and the
\* iTunes backfill requests are started.
ChartsListsSettle(q, up) ==
    /\ chartsHist.last.kind = "none"
    /\ chartReqs[q].pc = "lists"
    /\ chartReqs' = [chartReqs EXCEPT ![q].pc = "backfill",
                                      ![q].payload = ChartsPayload(up)]
    /\ UNCHANGED <<now, rateVars, artistVars, chartsCache, chartsHist, feedVars, dateVars, gamesRun, lateVars>>

\* Promise.allSettled of the backfill has resolved: the result is stored with
\* the current time and returned.
ChartsBackfillSettle(q, trackArt, artistArt, dates) ==
    /\ chartsHist.last.kind = "none"
    /\ chartReqs[q].pc = "backfill"
    /\ \E result \in {Backfilled(chartReqs[q].payload, trackArt, artistArt, dates)} :
        /\ chartsCache' = StoreCharts(result, now)
        /\ chartsHist' = [chartsHist EXCEPT
               !.refreshed = [done |-> TRUE, data |-> result, at |-> now]]
    /\ chartReqs' = [chartReqs EXCEPT ![q] = ChartReqIdle]
    /\ UNCHANGED <<now, rateVars, artistVars, feedVars, dateVars, gamesRun, lateVars>>

ChartsTick ==
    /\ chartsHist.last.kind = "none"
    /\ now + ChartsTickMs <= MaxChartTicks * ChartsTickMs
    /\ now' = now + ChartsTickMs
    /\ UNCHANGED <<rateVars, artistVars, chartVars, feedVars, dateVars, gamesRun, lateVars>>

ArtChoices(items) == [DOMAIN items -> {Null, "itunes300x300"}]

DateChoices(albums) == [DOMAIN albums -> {Null, "2024-05-03"}]

(***************************************************************************)
(* The feed endpoints of index.ts.  One handler runs per action; the       *)
(* upstream replies it meets are the action's inputs.  resp is the answer  *)
(* the handler gave, feedCall what its feed function was given and         *)
(* returned; ResponseSent hands the answer to the client.                  *)
(***************************************************************************)
NoCall ==
    [feed |-> "none", primaryOk |-> FALSE, raised |-> FALSE,
     titles |-> << >>, outcomes |-> << >>, list |-> << >>]

NoResp == [status |-> 0, items |-> << >>, ids |-> {}, error |-> Null]

\* fetch() rejects on a network error
FetchRejects(kind) == kind = "neterr"

\* res.ok
ResOk(kind) == kind = "ok"

\* a primary list call that lets every completed response through
PrimaryRaisesOnNetworkErrorOnly(kind) == FetchRejects(kind)

\* const res = await fetch(...); if (!res.ok) throw new Error(...)
PrimaryRaises(kind) == FetchRejects(kind) \/ ~ResOk(kind)

PrimaryKinds == {"neterr", "non2xx", "ok"}

Raised == [raised |-> TRUE, list |-> << >>]

Returned(list) == [raised |-> FALSE, list |-> list]

\* a lookup that returns the dismissed ids of every category
DbGetDismissedCardsOfAnyCategory(category) ==
    IF ~pool THEN {} ELSE {d[2] : d \in dismissed}

\* dbGetDismissedCards(category)
DbGetDismissedCards(category) ==
    IF ~pool THEN {} ELSE {d[2] : d \in {e \in dismissed : e[1] = category}}

\* the rows of dismissed_cards after dbDismissCard(category, itemId)
DbDismissCard(category, itemId) ==
    IF ~pool THEN dismissed ELSE dismissed \cup {<<category, itemId>>}

RECURSIVE SelectSeqIds(_, _)
\* items.filter((x) => !dismissedSet.has(String(x.id)))
SelectSeqIds(items, hidden) ==
    IF items = << >> THEN << >>
    ELSE IF items[1].key \in hidden
         THEN SelectSeqIds(Tail(items), hidden)
         ELSE <<items[1].item>> \o SelectSeqIds(Tail(items), hidden)

\* try { ...; res.json(filtered) } catch { res.status(500).json({ error }) }
Respond(result, keys, category, error) ==
    IF result.raised
    THEN [status |-> 500, items |-> << >>, ids |-> {}, error |-> error]
    ELSE [status |-> 200, ids |-> {},
          items |-> SelectSeqIds([i \in DOMAIN result.list |->
                                     [key |-> keys[i], item |-> result.list[i]]],
                                 DbGetDismissedCards(category)),
          error |-> Null]

\* String(x.id) of the numeric ids of games and movies
NumericKeys(list) == [i \in DOMAIN list |-> ToString(list[i].id)]

(***************************************************************************)
(* tmdb.ts                                                                 *)
(***************************************************************************)
\* .slice(0, 4)
CastShown == 4

\* days; new Date(releaseDate) < sixMonthsAgo
SixMonthsAgo == 180

\* a title of the TMDB catalogue, as the list calls return it
TMDBMovie(m) ==
    [id |-> m, title |-> "title-" \o ToString(m),
     poster_path |-> IF m % 2 = 0 THEN Null ELSE "/p" \o ToString(m) \o ".jpg",
     release_date |-> IF m % 2 = 0 THEN 100 ELSE 300,
     popularity |-> IF m % 3 = 1 THEN NoNum ELSE 3 - (m % 3),
     genre_ids |-> IF m % 3 = 0 THEN {27, 53} ELSE {18}]

\* what /movie/{id}/credits holds for a title: crew and an unordered cast
CreditsBody(m) ==
    [crew |-> << [id |-> 900 + m, job |-> "Producer", name |-> "producer-" \o ToString(m)],
                 [id |-> 100 + m, job |-> "Director", name |-> "director-" \o ToString(m)] >>,
     cast |-> [c \in 1..5 |->
                 [name |-> "actor-" \o ToString(m) \o "-" \o ToString((c * 2) % 5),
                  order |-> (c * 2) % 5]]]

NoCredits == [director |-> Null, directorId |-> NoNum, cast |-> << >>]

\* credits.crew.find((c) => c.job === 'Director')
DirectorEntry(crew) ==
    LET hits == {i \in DOMAIN crew : crew[i].job = "Director"} IN
    IF hits = {} THEN [id |-> NoNum, name |-> Null]
    ELSE LET first == CHOOSE i \in hits : \A j \in hits : i <= j IN
         [id |-> crew[first].id, name |-> crew[first].name]

\* credits.cast.sort((a, b) => a.order - b.order).slice(0, 4).map((c) => c.name)
TopCast(cast) ==
    LET rank(i) == Cardinality({j \in DOMAIN cast :
                       \/ cast[j].order < cast[i].order
                       \/ (cast[j].order = cast[i].order /\ j < i)}) + 1
    IN [p \in 1..Min(Len(cast), CastShown) |->
           cast[CHOOSE i \in DOMAIN cast : rank(i) = p].name]

ParseCredits(credits) ==
    [director |-> DirectorEntry(credits.crew).name,
     directorId |-> DirectorEntry(credits.crew).id,
     cast |-> TopCast(credits.cast)]

\* the ids of the titles of the catalogue
CatalogueIds == 1..(MaxTitles + MaxPageSize + MaxPages)

\* what a 2xx credits reply for each title of the catalogue parses to
ParsedCredits == [m \in CatalogueIds |-> ParseCredits(CreditsBody(m))]

\* the titles of the catalogue, as the list calls return them
Catalogue == [m \in CatalogueIds |-> TMDBMovie(m)]

Fulfilled(value) == [status |-> "fulfilled", value |-> value]

CreditKinds == {"neterr", "non2xx", "ok"}

\* fetchUpcomingFridayMovies: the credits task of one title, as
\* Promise.allSettled reports it
CreditsTask(movie, kind) ==
    IF FetchRejects(kind) THEN [status |-> "rejected", value |-> NoCredits]
    ELSE IF ~ResOk(kind) THEN Fulfilled(NoCredits)
    ELSE Fulfilled(ParsedCredits[movie.id])

PosterUrl(path, size) ==
    IF path # Null THEN "https://image.tmdb.org/t/p/" \o size \o path ELSE Null

UpcomingRelease(movie, settled) ==
    LET credits == IF settled.status = "fulfilled" THEN settled.value ELSE NoCredits IN
    [id |-> movie.id, title |-> movie.title,
     posterUrl |-> PosterUrl(movie.poster_path, "w500"),
     releaseDate |-> movie.release_date,
     director |-> credits.director, directorId |-> credits.directorId,
     cast |-> credits.cast,
     tmdbUrl |-> "https://www.themoviedb.org/movie/" \o ToString(movie.id),
     revenue |-> NoNum, popularity |-> NoNum,
     isHorror |-> 27 \in movie.genre_ids]

\* a join that keeps only the titles whose credits task was fulfilled
fetchUpcomingFridayMoviesDropRejected(kind, movies, credits) ==
    IF PrimaryRaises(kind) THEN Raised
    ELSE LET kept == SelectSeq(movies, LAMBDA movie :
                        \E i \in DOMAIN movies :
                           /\ movies[i] = movie
                           /\ CreditsTask(movie, credits[i]).status = "fulfilled")
         IN Returned([i \in DOMAIN kept |->
                        UpcomingRelease(kept[i], Fulfilled(ParsedCredits[kept[i].id]))])

fetchUpcomingFridayMovies(kind, movies, credits) ==
    IF PrimaryRaises(kind) THEN Raised
    ELSE Returned([i \in DOMAIN movies |->
                      UpcomingRelease(movies[i], CreditsTask(movies[i], credits[i]))])

NoDetail == [director |-> Null, directorId |-> NoNum, cast |-> << >>, revenue |-> NoNum]

\* the replies to a detail request
DetailKinds == {"neterr", "non2xx", "ok"}

\* what /movie/{id}?append_to_response=credits holds for a title: some
\* titles have no revenue yet, some bodies come without credits
DetailBody(m) ==
    [revenue |-> IF m % 2 = 0 THEN 0 ELSE 1000 * m,
     hasCredits |-> m % 3 # 0]

\* detail.revenue && detail.revenue > 0 ? detail.revenue : null
RevenueOf(revenue) == IF revenue # 0 /\ revenue > 0 THEN revenue ELSE NoNum

\* fetchNowPlayingMovies: the detail task of one title
DetailTask(movie, kind) ==
    IF FetchRejects(kind) THEN [status |-> "rejected", value |-> NoDetail]
    ELSE IF ~ResOk(kind) THEN Fulfilled(NoDetail)
    ELSE LET detail == DetailBody(movie.id)
             credits == IF detail.hasCredits THEN ParsedCredits[movie.id] ELSE NoCredits
         IN Fulfilled([director |-> credits.director, directorId |-> credits.directorId,
                       cast |-> credits.cast, revenue |-> RevenueOf(detail.revenue)])

NowPlayingRelease(movie, settled) ==
    LET detail == IF settled.status = "fulfilled" THEN settled.value ELSE NoDetail IN
    [id |-> movie.id, title |-> movie.title,
     posterUrl |-> PosterUrl(movie.poster_path, "w500"),
     releaseDate |-> movie.release_date,
     director |-> detail.director, directorId |-> detail.directorId,
     cast |-> detail.cast,
     tmdbUrl |-> "https://www.themoviedb.org/movie/" \o ToString(movie.id),
     revenue |-> detail.revenue, popularity |-> movie.popularity,
     isHorror |-> 27 \in movie.genre_ids]

\* Math.min(data.total_pages, 10)
NowPlayingPageCap == 10

\* The reply to the request for one further page: the request fails
\* ("neterr"), the reply is a JSON body without results, as an error reply
\* is ("errbody"), or it lists titles.
ExtraPage(kind, results) == [kind |-> kind, results |-> results]

\* The replies page p can give when page 1 listed n titles: a failure, a
\* title not listed before, or the first title again (the pages are
\* separate requests against a ranking that moves).
ExtraPageReplies(n, p) ==
    {ExtraPage("neterr", << >>), ExtraPage("errbody", << >>),
     ExtraPage("ok", <<Catalogue[n + p - 1]>>)}
    \cup (IF n > 0 THEN {ExtraPage("ok", <<Catalogue[1]>>)} ELSE {})

RECURSIVE FlatResults(_)
\* extraPages.flatMap((p) => p.results)
FlatResults(pages) ==
    IF pages = << >> THEN << >> ELSE pages[1].results \o FlatResults(Tail(pages))

\* await Promise.all(pageFetches) rejects when one request fails; a body
\* without results puts undefined in the list, and movies.map then throws
\* on reading movie.id
ExtraPagesRaise(pages) ==
    \E p \in DOMAIN pages : pages[p].kind \in {"neterr", "errbody"}

\* results.sort: titles older than six months last, then popularity descending
\* popularity ?? 0
PopularityOrZero(popularity) == IF popularity = NoNum THEN 0 ELSE popularity

\* a comparator without the six-month bucket
NowPlayingCmpByPopularity(a, b) ==
    PopularityOrZero(b.popularity) - PopularityOrZero(a.popularity)

NowPlayingCmp(a, b) ==
    LET aOld == IF a.releaseDate < SixMonthsAgo THEN 1 ELSE 0
        bOld == IF b.releaseDate < SixMonthsAgo THEN 1 ELSE 0
    IN IF aOld # bOld THEN aOld - bOld
       ELSE PopularityOrZero(b.popularity) - PopularityOrZero(a.popularity)

\* the element x goes behind the last element that does not sort after it
InsertAt(sorted, x, j) == SubSeq(sorted, 1, j) \o <<x>> \o SubSeq(sorted, j + 1, Len(sorted))

RECURSIVE SortNowPlaying(_)
SortNowPlaying(s) ==
    IF s = << >> THEN << >>
    ELSE LET sorted == SortNowPlaying(SubSeq(s, 1, Len(s) - 1))
             x == s[Len(s)]
             keep == {j \in DOMAIN sorted : NowPlayingCmp(sorted[j], x) <= 0}
             at == IF keep = {} THEN 0 ELSE CHOOSE j \in keep : \A k \in keep : k <= j
         IN InsertAt(sorted, x, at)

\* the titles of all the pages, in the order of the pages
NowPlayingTitles(first, pages) == first \o FlatResults(pages)

\* the further pages requested: pages 2..min(total_pages, 10)
PagesRequested(total_pages) == Min(total_pages, NowPlayingPageCap) - 1

fetchNowPlayingMovies(kind, first, pages, details) ==
    IF PrimaryRaises(kind) \/ ExtraPagesRaise(pages) THEN Raised
    ELSE LET movies == NowPlayingTitles(first, pages) IN
         Returned(SortNowPlaying([i \in DOMAIN movies |->
                     NowPlayingRelease(movies[i], DetailTask(movies[i], details[i]))]))

\* the director credits of a person
PersonCrew ==
    << [title |-> "Alien", release_date |-> "1979-05-25", poster_path |-> "/alien.jpg",
        job |-> "Director"],
       [title |-> "Prometheus", release_date |-> "2012-06-08", poster_path |-> Null,
        job |-> "Director"],
       [title |-> "Untitled", release_date |-> "", poster_path |-> Null, job |-> "Director"],
       [title |-> "Dune", release_date |-> "2021-10-22", poster_path |-> "/dune.jpg",
        job |-> "Producer"] >>

\* where a release date stands in the order of localeCompare
DateRank(d) ==
    CASE d = "" -> 0 [] d = "1979-05-25" -> 1 [] d = "2012-06-08" -> 2 [] OTHER -> 3

\* c.release_date ? c.release_date.slice(0, 4) : ''
YearOf(d) ==
    CASE d = "1979-05-25" -> "1979" [] d = "2012-06-08" -> "2012"
      [] d = "2021-10-22" -> "2021" [] OTHER -> ""

RECURSIVE SortFilms(_)
\* .sort((a, b) => (b.release_date ?? '').localeCompare(a.release_date ?? ''))
SortFilms(s) ==
    IF s = << >> THEN << >>
    ELSE LET sorted == SortFilms(SubSeq(s, 1, Len(s) - 1))
             x == s[Len(s)]
             keep == {j \in DOMAIN sorted :
                         DateRank(sorted[j].release_date) >= DateRank(x.release_date)}
             at == IF keep = {} THEN 0 ELSE CHOOSE j \in keep : \A k \in keep : k <= j
         IN InsertAt(sorted, x, at)

fetchDirectorFilmography(kind, crew) ==
    IF PrimaryRaises(kind) THEN Raised
    ELSE LET directed == SortFilms(SelectSeq(crew, LAMBDA c : c.job = "Director")) IN
         Returned([i \in DOMAIN directed |->
                     [title |-> directed[i].title, year |-> YearOf(directed[i].release_date),
                      posterUrl |-> PosterUrl(directed[i].poster_path, "w200")]])

\* the first n titles of the catalogue, as one list call returns them
Titles(n) == [m \in 1..n |-> Catalogue[m]]

\* GET /api/movies/upcoming
GetUpcomingMovies(kind, n, credits) ==
    /\ resp.status = 0
    /\ \E movies \in {IF ResOk(kind) THEN Titles(n) ELSE << >>} :
       \E result \in {fetchUpcomingFridayMovies(kind, movies, credits)} :
          /\ feedCall' = [feed |-> "upcoming-movies", primaryOk |-> kind = "ok",
                          raised |-> result.raised, titles |-> movies,
                          outcomes |-> credits, list |-> result.list]
          /\ resp' = Respond(result, NumericKeys(result.list), "movie",
                             "Failed to fetch movie releases")
    /\ UNCHANGED <<now, rateVars, artistVars, chartVars, dismissed, dateVars, gamesRun, lateVars>>

\* GET /api/movies/now-playing
GetNowPlayingMovies(kind, n, pages, details) ==
    /\ resp.status = 0
    /\ \E first \in {IF ResOk(kind) THEN Titles(n) ELSE << >>} :
       \E result \in {fetchNowPlayingMovies(kind, first, pages, details)} :
          /\ feedCall' = [feed |-> "now-playing", primaryOk |-> kind = "ok",
                          raised |-> result.raised,
                          titles |-> NowPlayingTitles(first, pages),
                          outcomes |-> details, list |-> result.list]
          /\ resp' = Respond(result, NumericKeys(result.list), "movie",
                             "Failed to fetch now-playing movies")
    /\ UNCHANGED <<now, rateVars, artistVars, chartVars, dismissed, dateVars, gamesRun, lateVars>>

\* GET /api/movies/director/:personId/filmography
GetFilmography(personId, kind) ==
    /\ resp.status = 0
    /\ IF personId <= 0
       THEN /\ resp' = [status |-> 400, items |-> << >>, ids |-> {},
                        error |-> "Invalid personId"]
            /\ feedCall' = NoCall
       ELSE \E crew \in {IF ResOk(kind) THEN PersonCrew ELSE << >>} :
            \E result \in {fetchDirectorFilmography(kind, crew)} :
               /\ feedCall' = [feed |-> "filmography", primaryOk |-> kind = "ok",
                               raised |-> result.raised, titles |-> crew,
                               outcomes |-> << >>, list |-> result.list]
               /\ resp' = IF result.raised
                          THEN [status |-> 500, items |-> << >>, ids |-> {},
                                error |-> "Failed to fetch filmography"]
                          ELSE [status |-> 200, items |-> result.list, ids |-> {},
                                error |-> Null]
    /\ UNCHANGED <<now, rateVars, artistVars, chartVars, dismissed, dateVars, gamesRun, lateVars>>

DismissCategories == {"game", "movie", "album"}

\* the cards a client dismisses: a game, a movie, an album, and a card of no category
DismissRequests == {<<"game", "1">>, <<"movie", "1">>, <<"album", "r1">>, <<"book", "1">>}

\* POST /api/dismissed/:category/:itemId
PostDismissed(category, itemId) ==
    /\ resp.status = 0
    /\ IF category \notin DismissCategories
       THEN /\ resp' = [status |-> 400, items |-> << >>, ids |-> {},
                        error |-> "Invalid category"]
            /\ UNCHANGED dismissed
       ELSE /\ dismissed' = DbDismissCard(category, itemId)
            /\ resp' = [status |-> 200, items |-> << >>,
                        ids |-> IF ~pool THEN {}
                                ELSE {d[2] : d \in {e \in dismissed' : e[1] = category}},
                        error |-> Null]
    /\ dismissLog' = IF resp'.status = 400 /\ dismissed' = dismissed
                     THEN dismissLog
                     ELSE dismissLog \cup {[category |-> category, itemId |-> itemId,
                                            listed |-> itemId \in resp'.ids]}
    /\ feedCall' = NoCall
    /\ UNCHANGED <<now, rateVars, artistVars, chartVars, dateVars, gamesRun, lateButDismissLog>>

\* the answer leaves the server
ResponseSent ==
    /\ resp.status # 0
    /\ resp' = NoResp
    /\ feedCall' = NoCall
    /\ UNCHANGED <<now, rateVars, artistVars, chartVars, dismissed, dateVars, gamesRun, lateVars>>

(***************************************************************************)
(* igdb.ts and steam.ts                                                    *)
(***************************************************************************)
\* the games IGDB can list, as /v4/games returns them
IGDBGames ==
    << [id |-> 1, name |-> "Doom", platforms |-> <<"PC (Microsoft Windows)">>,
        external_games |-> << >>, hypes |-> 5, follows |-> NoNum],
       [id |-> 2, name |-> "Zelda", platforms |-> <<"Nintendo Switch">>,
        external_games |-> <<[category |-> 5, uid |-> "gog-2"]>>, hypes |-> 9, follows |-> 1],
       [id |-> 3, name |-> "Portal", platforms |-> <<"Linux", "PlayStation 5">>,
        external_games |-> <<[category |-> 5, uid |-> "gog-3"], [category |-> 1, uid |-> "400"]>>,
        hypes |-> 2, follows |-> 3],
       [id |-> 4, name |-> "Hades", platforms |-> <<"Xbox One", "Mac">>,
        external_games |-> << >>, hypes |-> NoNum, follows |-> 5],
       [id |-> 5, name |-> "Tetris", platforms |-> << >>,
        external_games |-> << >>, hypes |-> NoNum, follows |-> NoNum] >>

\* game.external_games?.find((eg) => eg.category === 1)?.uid ?? null
SteamUid(external_games) ==
    LET hits == {i \in DOMAIN external_games : external_games[i].category = 1} IN
    IF hits = {} THEN Null
    ELSE external_games[CHOOSE i \in hits : \A j \in hits : i <= j].uid

\* fetchTodayReleases: games.map((game) => ({ ... }))
GameRelease(game) ==
    [id |-> game.id, name |-> game.name, platforms |-> game.platforms,
     steamAppId |-> SteamUid(game.external_games),
     hypes |-> IF game.hypes = NoNum THEN 0 ELSE game.hypes,
     follows |-> IF game.follows = NoNum THEN 0 ELSE game.follows]

\* getTwitchToken throws on a failed token request; the list call follows it
fetchTodayReleases(tokenKind, kind, games) ==
    IF PrimaryRaises(tokenKind) \/ PrimaryRaises(kind) THEN Raised
    ELSE Returned([i \in DOMAIN games |-> GameRelease(games[i])])

PC_PLATFORMS == {"pc (microsoft windows)", "mac", "linux"}

\* a platform test that compares the names as they are spelt
isPcGameCaseSensitive(game) ==
    \E p \in DOMAIN game.platforms : game.platforms[p] \in PC_PLATFORMS

isPcGame(game) ==
    \E p \in DOMAIN game.platforms : Lower(game.platforms[p]) \in PC_PLATFORMS

\* The replies of the store search for a name: the request fails or times
\* out, a non-2xx status, no items, items with the name in other case in
\* second place, or items without the name.
SearchKinds == {"neterr", "non2xx", "noItems", "exact", "other"}

SearchItems(gameName, kind) ==
    CASE kind = "exact" -> << [id |-> 70, name |-> gameName \o " Eternal"],
                              [id |-> 50, name |-> Upper(gameName)] >>
      [] kind = "other" -> << [id |-> 70, name |-> gameName \o " Eternal"] >>
      [] OTHER -> << >>

\* a search that always takes the first item
searchSteamAppIdFirstHit(gameName, kind) ==
    IF FetchRejects(kind) \/ kind = "non2xx" \/ SearchItems(gameName, kind) = << >>
    THEN Null
    ELSE ToString(SearchItems(gameName, kind)[1].id)

searchSteamAppId(gameName, kind) ==
    IF FetchRejects(kind) \/ kind = "non2xx" THEN Null
    ELSE LET items == SearchItems(gameName, kind)
             hits == {i \in DOMAIN items : Lower(items[i].name) = Lower(gameName)}
         IN IF Len(items) = 0 THEN Null
            ELSE IF hits # {}
                 THEN ToString(items[CHOOSE i \in hits : \A j \in hits : i <= j].id)
                 ELSE ToString(items[1].id)

\* games.filter((g) => g.steamAppId === null && isPcGame(g))
NeedsSearch(game) == game.steamAppId = Null /\ isPcGame(game)

backfillSteamAppIds(games, searches) ==
    [i \in DOMAIN games |->
        IF NeedsSearch(games[i]) /\ searchSteamAppId(games[i].name, searches[i]) # Null
        THEN [games[i] EXCEPT !.steamAppId = searchSteamAppId(games[i].name, searches[i])]
        ELSE games[i]]

NoReviews ==
    [totalPositive |-> NoNum, totalNegative |-> NoNum, totalReviews |-> NoNum,
     reviewScoreDesc |-> Null]

\* the replies of the review and the description requests of one game
SteamKinds == {"neterr", "ok"}

fetchSteamReviews(steamAppId, kind) ==
    IF kind # "ok" THEN NoReviews
    ELSE [totalPositive |-> 9, totalNegative |-> 1, totalReviews |-> 10,
          reviewScoreDesc |-> "Very Positive " \o steamAppId]

fetchSteamDescription(steamAppId, kind) ==
    IF kind # "ok" THEN Null ELSE "About " \o steamAppId

RECURSIVE SteamMap(_, _, _, _)
\* fetchAllSteamReviews / fetchAllSteamDescriptions: the map from steamAppId
\* to what was fetched for it, a later game overwriting an earlier one
SteamMap(games, values, none, map) ==
    IF games = << >> THEN map
    ELSE SteamMap(Tail(games), Tail(values), none,
                  IF games[1].steamAppId # Null /\ values[1] # none
                  THEN [k \in DOMAIN map \cup {games[1].steamAppId} |->
                           IF k = games[1].steamAppId THEN values[1] ELSE map[k]]
                  ELSE map)

MapGet(map, key, none) == IF key \in DOMAIN map THEN map[key] ELSE none

\* a.name.localeCompare(b.name) on the names of IGDBGames
NameRank(name) ==
    CASE name = "Doom" -> 1 [] name = "Hades" -> 2 [] name = "Portal" -> 3
      [] name = "Tetris" -> 4 [] OTHER -> 5

\* a comparator that leaves the follows out of the popularity
GameCmpByHypes(a, b) ==
    IF a.hypes # b.hypes THEN b.hypes - a.hypes
    ELSE NameRank(a.name) - NameRank(b.name)

\* enriched.sort: hypes + follows descending, then the name
GameCmp(a, b) ==
    IF a.hypes + a.follows # b.hypes + b.follows
    THEN (b.hypes + b.follows) - (a.hypes + a.follows)
    ELSE NameRank(a.name) - NameRank(b.name)

RECURSIVE SortGames(_)
SortGames(s) ==
    IF s = << >> THEN << >>
    ELSE LET sorted == SortGames(SubSeq(s, 1, Len(s) - 1))
             x == s[Len(s)]
             keep == {j \in DOMAIN sorted : GameCmp(sorted[j], x) <= 0}
             at == IF keep = {} THEN 0 ELSE CHOOSE j \in keep : \A k \in keep : k <= j
         IN InsertAt(sorted, x, at)

\* the handler of /api/gaming/releases between the list call and the filter
EnrichGames(releases, searches, reviews, descriptions) ==
    LET games == backfillSteamAppIds(releases, searches)
        fetchedReviews == [i \in DOMAIN games |->
            IF games[i].steamAppId = Null THEN NoReviews
            ELSE fetchSteamReviews(games[i].steamAppId, reviews[i])]
        fetchedDescriptions == [i \in DOMAIN games |->
            IF games[i].steamAppId = Null THEN Null
            ELSE fetchSteamDescription(games[i].steamAppId, descriptions[i])]
        reviewsMap == SteamMap(games, fetchedReviews, NoReviews, << >>)
        descriptionsMap == SteamMap(games, fetchedDescriptions, Null, << >>)
    IN SortGames([i \in DOMAIN games |->
          [id |-> games[i].id, name |-> games[i].name, platforms |-> games[i].platforms,
           steamAppId |-> games[i].steamAppId,
           hypes |-> games[i].hypes, follows |-> games[i].follows,
           steamReviews |-> IF games[i].steamAppId # Null
                            THEN MapGet(reviewsMap, games[i].steamAppId, NoReviews)
                            ELSE NoReviews,
           steamDescription |-> IF games[i].steamAppId # Null
                                THEN MapGet(descriptionsMap, games[i].steamAppId, Null)
                                ELSE Null]])

\* the lists IGDB can return: up to MaxGames of IGDBGames, in their order
GameLists ==
    {SelectSeq(IGDBGames, LAMBDA g : g.id \in ids) :
        ids \in {S \in SUBSET (1..Len(IGDBGames)) : Cardinality(S) <= MaxGames}}

\* GET /api/gaming/releases
GetGameReleases(tokenKind, kind, listed, searches, reviews, descriptions) ==
    /\ resp.status = 0
    /\ \E fetched \in {fetchTodayReleases(tokenKind, kind, listed)} :
       \E result \in {IF fetched.raised THEN Raised
                     ELSE Returned(EnrichGames(fetched.list, searches, reviews, descriptions))} :
          /\ feedCall' = [feed |-> "games", primaryOk |-> tokenKind = "ok" /\ kind = "ok",
                          raised |-> result.raised, titles |-> listed,
                          outcomes |-> [i \in DOMAIN searches |->
                                          [searched |-> NeedsSearch(fetched.list[i]),
                                           search |-> searches[i],
                                           reviews |-> reviews[i],
                                           description |-> descriptions[i]]],
                          list |-> result.list]
          /\ resp' = Respond(result, NumericKeys(result.list), "game",
                             "Failed to fetch game releases")
    /\ UNCHANGED <<now, rateVars, artistVars, chartVars, dismissed, dateVars, gamesRun, lateVars>>

(***************************************************************************)
(* musicbrainz.ts and the handler of /api/music/upcoming                   *)
(***************************************************************************)
\* getUpcomingFriday() on the day of the request
Friday == "2026-11-06"

\* The releases the MusicBrainz search can list.  Null: the field is absent.
MBReleases ==
    << [id |-> "r1", title |-> "Voyage", credits |-> <<"ABBA">>, rg |-> "g1",
        ptype |-> "Album", date |-> "2026-11-06"],
       [id |-> "r2", title |-> "Voyage (Deluxe)", credits |-> <<"abba">>, rg |-> "g1",
        ptype |-> "Album", date |-> "2026-11-06"],
       [id |-> "r3", title |-> "Gold", credits |-> <<"abba">>, rg |-> "g2",
        ptype |-> Null, date |-> Null],
       [id |-> "r4", title |-> "Loose", credits |-> <<"ABBA">>, rg |-> Null,
        ptype |-> "EP", date |-> "2026-11-06"],
       [id |-> "r5", title |-> "Odelay", credits |-> <<"Beck">>, rg |-> "g3",
        ptype |-> "Album", date |-> "2026-11-06"],
       [id |-> "r6", title |-> "Believe", credits |-> <<"Cher">>, rg |-> "g4",
        ptype |-> "Album", date |-> "2026-11-06"] >>

\* a pass that omits only the releases without a release group
DedupKeepingRepeats(releases, seen) == SelectSeq(releases, LAMBDA r : r.rg # Null)

RECURSIVE DedupByReleaseGroup(_, _)
\* if (!rgId || seen.has(rgId)) continue; seen.add(rgId); unique.push(release)
DedupByReleaseGroup(releases, seen) ==
    IF releases = << >> THEN << >>
    ELSE IF releases[1].rg = Null \/ releases[1].rg \in seen
         THEN DedupByReleaseGroup(Tail(releases), seen)
         ELSE <<releases[1]>> \o DedupByReleaseGroup(Tail(releases), seen \cup {releases[1].rg})

RECURSIVE JoinNames(_)
\* release['artist-credit'].map((c) => c.name).join(', ')
JoinNames(credits) ==
    IF Len(credits) = 1 THEN credits[1]
    ELSE credits[1] \o ", " \o JoinNames(Tail(credits))

AlbumRelease(release) ==
    [id |-> release.id, title |-> release.title,
     artist |-> IF release.credits = << >> THEN "Unknown Artist" ELSE JoinNames(release.credits),
     coverUrl |-> IF release.rg # Null
                  THEN "https://coverartarchive.org/release-group/" \o release.rg \o "/front-500"
                  ELSE "https://coverartarchive.org/release/" \o release.id \o "/front-500",
     releaseDate |-> IF release.date # Null THEN release.date ELSE Friday,
     type |-> IF release.ptype # Null THEN release.ptype ELSE "Album",
     fridayDate |-> Friday,
     artistListeners |-> NoNum, genre |-> Null, inSpotifyLibrary |-> FALSE]

fetchUpcomingFridayAlbums(kind, releases) ==
    IF PrimaryRaises(kind) THEN Raised
    ELSE LET unique == DedupByReleaseGroup(releases, {}) IN
         Returned([i \in DOMAIN unique |-> AlbumRelease(unique[i])])

\* fetchAllArtistPopularity run to its end: the artists looked up, each
\* answered from the cache or by the lookup whose reply is given
LookedUp(albums) == UniqueArtists([i \in DOMAIN albums |-> albums[i].artist])

LookupInfo(artist, lookups) ==
    IF CacheKey(artist) \in DOMAIN cache THEN cache[CacheKey(artist)]
    ELSE ArtistInfoOf(lookups[CacheKey(artist)])

\* map.set(result.value.artist, result.value.info): keyed by the spelling looked up
PopularityMap(albums, lookups) ==
    [a \in Range(LookedUp(albums)) |-> LookupInfo(a, lookups)]

\* cache.set(cacheKey, ...) of every lookup that was not answered from the cache
CacheAfter(albums, lookups) ==
    [k \in DOMAIN cache \cup {CacheKey(a) : a \in Range(LookedUp(albums))} |->
        IF k \in DOMAIN cache THEN cache[k] ELSE ArtistInfoOf(lookups[k])]

\* const info = popularityMap.get(album.artist); album.artistListeners = ...
Annotate(album, map) ==
    IF album.artist \in DOMAIN map
    THEN [album EXCEPT !.artistListeners = map[album.artist].listeners,
                       !.genre = map[album.artist].genre]
    ELSE album

\* a.artist.localeCompare(b.artist) on the names of the model
ArtistRank(artist) ==
    CASE artist = "abba" -> 1 [] artist = "ABBA" -> 2 [] artist = "Beck" -> 3
      [] artist = "Cher" -> 4 [] OTHER -> 5

\* a comparator that puts the smaller listener count first
AlbumCmpAscending(a, b) ==
    LET aHas == a.artistListeners # NoNum
        bHas == b.artistListeners # NoNum
    IN IF aHas /\ ~bHas THEN -1
       ELSE IF ~aHas /\ bHas THEN 1
       ELSE IF aHas /\ bHas THEN a.artistListeners - b.artistListeners
       ELSE ArtistRank(a.artist) - ArtistRank(b.artist)

\* albums.sort: artists with a listener count first, by count descending;
\* the others by artist name
AlbumCmp(a, b) ==
    LET aHas == a.artistListeners # NoNum
        bHas == b.artistListeners # NoNum
    IN IF aHas /\ ~bHas THEN -1
       ELSE IF ~aHas /\ bHas THEN 1
       ELSE IF aHas /\ bHas THEN b.artistListeners - a.artistListeners
       ELSE ArtistRank(a.artist) - ArtistRank(b.artist)

RECURSIVE SortAlbums(_)
SortAlbums(s) ==
    IF s = << >> THEN << >>
    ELSE LET sorted == SortAlbums(SubSeq(s, 1, Len(s) - 1))
             x == s[Len(s)]
             keep == {j \in DOMAIN sorted : AlbumCmp(sorted[j], x) <= 0}
             at == IF keep = {} THEN 0 ELSE CHOOSE j \in keep : \A k \in keep : k <= j
         IN InsertAt(sorted, x, at)

\* The Spotify stage: skipped (not configured or not signed in), the sign-in
\* check isAuthenticated() itself rejects, failed later (the token refresh or
\* the artist request throws and is caught), or answered with the lower-cased
\* names of the library's artists.
SpotifyKinds == {"skip", "authError", "error", "ok"}

\* the kinds in which the Spotify stage fails
SpotifyFailures == {"authError", "error"}

\* `await isAuthenticated()` is evaluated in the handler's outer try only:
\* its rejection reaches the handler's catch
SpotifyStageRaises(kind) == kind = "authError"

SpotifyArtists == {"abba"}

\* album.artist.split(',').map((s) => s.trim().toLowerCase()) on the names of the model
ArtistParts(artist) == {Lower(artist)}

TagSpotify(album, kind) ==
    IF kind = "ok" /\ ArtistParts(album.artist) \cap SpotifyArtists # {}
    THEN [album EXCEPT !.inSpotifyLibrary = TRUE]
    ELSE album

\* the lists MusicBrainz can return: up to n of the given releases, in their order
ReleaseListsOf(releases, n) ==
    {SelectSeq(releases, LAMBDA r : r.id \in ids) :
        ids \in {S \in SUBSET {releases[i].id : i \in DOMAIN releases} : Cardinality(S) <= n}}

\* a Friday on which only releases credited to ABBA in either spelling are listed
ReleaseLists ==
    ReleaseListsOf(SelectSeq(MBReleases, LAMBDA r : Lower(r.credits[1]) = "abba"), MaxAlbums)

\* a Friday with releases of up to three artists
MusicReleaseLists == ReleaseListsOf(MBReleases, MaxReleases)

\* GET /api/music/upcoming.  The waits of rateLimitedFetch and rateLimit only
\* delay the handler; the lookups it makes fill the artist cache.
GetUpcomingAlbums(kind, listed, lookups, spotify) ==
    /\ resp.status = 0
    /\ \E fetched \in {fetchUpcomingFridayAlbums(kind, listed)} :
       \E map \in {PopularityMap(fetched.list, lookups)} :
       \E sorted \in {SortAlbums([i \in DOMAIN fetched.list |-> Annotate(fetched.list[i], map)])} :
       \E result \in {IF fetched.raised \/ SpotifyStageRaises(spotify) THEN Raised
                     ELSE Returned([i \in DOMAIN sorted |-> TagSpotify(sorted[i], spotify)])} :
          /\ feedCall' = [feed |-> "albums", primaryOk |-> kind = "ok",
                          raised |-> result.raised, titles |-> listed,
                          outcomes |-> [lookups |-> lookups, spotify |-> spotify],
                          list |-> result.list]
          /\ cache' = IF fetched.raised THEN cache ELSE CacheAfter(fetched.list, lookups)
          /\ resp' = Respond(result, [i \in DOMAIN result.list |-> result.list[i].id],
                             "album", "Failed to fetch album releases")
    /\ UNCHANGED <<now, rateVars, runs, hist, chartVars, dismissed, dateVars, gamesRun, lateVars>>

(***************************************************************************)
(* The inputs of the feed handlers                                         *)
(***************************************************************************)
\* the replies to the requests for the pages after the first
ExtraPageChoices(kind, n, total_pages) ==
    IF ~ResOk(kind) THEN {<< >>}
    ELSE {pages \in [1..PagesRequested(total_pages) ->
                        UNION {ExtraPageReplies(n, p) : p \in 2..MaxPages}] :
             \A p \in DOMAIN pages : pages[p] \in ExtraPageReplies(n, p + 1)}

DetailChoices(kind, first, pages) ==
    IF ~ResOk(kind) \/ ExtraPagesRaise(pages) THEN {<< >>}
    ELSE [DOMAIN NowPlayingTitles(first, pages) -> DetailKinds]

SearchChoices(releases) ==
    {s \in [DOMAIN releases -> SearchKinds \cup {"unasked"}] :
        \A i \in DOMAIN releases : (s[i] = "unasked") <=> ~NeedsSearch(releases[i])}

SteamChoices(games) ==
    {s \in [DOMAIN games -> SteamKinds \cup {"unasked"}] :
        \A i \in DOMAIN games : (s[i] = "unasked") <=> (games[i].steamAppId = Null)}

LookupChoices(albums) ==
    [{CacheKey(a) : a \in {b \in Range(LookedUp(albums)) : CacheKey(b) \notin DOMAIN cache}}
        -> ArtistOutcomes]

(***************************************************************************)
(* getReleaseWeek (tmdb.ts) and getUpcomingFriday (musicbrainz.ts)         *)
(***************************************************************************)
\* the local date of the first request
FirstDay == [y |-> 2026, m |-> 11, d |-> 2]

IsLeap(y) == (y % 4 = 0 /\ y % 100 # 0) \/ y % 400 = 0

DaysInMonth(y, m) ==
    CASE m = 2 -> IF IsLeap(y) THEN 29 ELSE 28
      [] m \in {4, 6, 9, 11} -> 30
      [] OTHER -> 31

\* days from 1970-01-01 to the date, as the time value of a Date counts them
DayNumber(date) ==
    LET y == IF date.m <= 2 THEN date.y - 1 ELSE date.y
        era == y \div 400
        yoe == y - era * 400
        mp == IF date.m > 2 THEN date.m - 3 ELSE date.m + 9
        doy == (153 * mp + 2) \div 5 + date.d - 1
        doe == yoe * 365 + yoe \div 4 - yoe \div 100 + doy
    IN era * 146097 + doe - 719468

\* the local date of a time value
DateOfDayNumber(z) ==
    LET shifted == z + 719468
        era == shifted \div 146097
        doe == shifted - era * 146097
        yoe == (doe - doe \div 1460 + doe \div 36524 - doe \div 146096) \div 365
        doy == doe - (365 * yoe + yoe \div 4 - yoe \div 100)
        mp == (5 * doy + 2) \div 153
        m == IF mp < 10 THEN mp + 3 ELSE mp - 9
    IN [y |-> yoe + era * 400 + (IF m <= 2 THEN 1 ELSE 0), m |-> m,
        d |-> doy - (153 * mp + 2) \div 5 + 1]

\* Date.prototype.getDay(): 0 = Sunday ... 6 = Saturday; 1970-01-01 was a Thursday
GetDay(date) == (DayNumber(date) + 4) % 7

RECURSIVE SetDate(_, _)
\* Date.prototype.setDate(k): a day of the month outside 1..length carries
\* into the neighbouring months
SetDate(date, k) ==
    IF k < 1
    THEN LET prev == IF date.m = 1 THEN [y |-> date.y - 1, m |-> 12, d |-> 1]
                     ELSE [y |-> date.y, m |-> date.m - 1, d |-> 1]
         IN SetDate(prev, k + DaysInMonth(prev.y, prev.m))
    ELSE IF k > DaysInMonth(date.y, date.m)
    THEN LET next == IF date.m = 12 THEN [y |-> date.y + 1, m |-> 1, d |-> 1]
                     ELSE [y |-> date.y, m |-> date.m + 1, d |-> 1]
         IN SetDate(next, k - DaysInMonth(date.y, date.m))
    ELSE [date EXCEPT !.d = k]

\* String(n).padStart(2, '0')
PadStart2(n) == IF n < 10 THEN "0" \o ToString(n) ELSE ToString(n)

\* formatDate(d): `${yyyy}-${mm}-${dd}`
formatDate(date) ==
    ToString(date.y) \o "-" \o PadStart2(date.m) \o "-" \o PadStart2(date.d)

\* an offset that takes Saturday and Sunday to the Friday that follows
FridayDiffForward(day) == IF day = 6 THEN 6 ELSE 5 - day

\* let diff: -1 on Saturday, -2 on Sunday, 5 - day otherwise
FridayDiff(day) ==
    IF day = 6 THEN -1
    ELSE IF day = 0 THEN -2
    ELSE 5 - day

getReleaseWeek(date) ==
    LET friday == SetDate(date, date.d + FridayDiff(GetDay(date)))
        weekStart == SetDate(friday, friday.d - 6)
    IN [friday |-> formatDate(friday), weekStart |-> formatDate(weekStart)]

getUpcomingFriday(date) ==
    formatDate(SetDate(date, date.d + FridayDiff(GetDay(date))))

NoWeekCall == [fn |-> "none", friday |-> Null, weekStart |-> Null]

\* fetchUpcomingFridayMovies asks for the release week
ReleaseWeekCall ==
    /\ weekCall.fn # "getReleaseWeek"
    /\ weekCall' = [fn |-> "getReleaseWeek", friday |-> getReleaseWeek(today).friday,
                    weekStart |-> getReleaseWeek(today).weekStart]
    /\ UNCHANGED <<now, rateVars, artistVars, chartVars, feedVars, today, gamesRun, lateVars>>

\* fetchUpcomingFridayAlbums asks for the Friday
UpcomingFridayCall ==
    /\ weekCall.fn # "getUpcomingFriday"
    /\ weekCall' = [fn |-> "getUpcomingFriday", friday |-> getUpcomingFriday(today),
                    weekStart |-> Null]
    /\ UNCHANGED <<now, rateVars, artistVars, chartVars, feedVars, today, gamesRun, lateVars>>

\* midnight, local time
DayPasses ==
    /\ DayNumber(today) - DayNumber(FirstDay) < MaxDays
    /\ today' = SetDate(today, today.d + 1)
    /\ weekCall' = NoWeekCall
    /\ UNCHANGED <<now, rateVars, artistVars, chartVars, feedVars, gamesRun, lateVars>>

(***************************************************************************)
(* The handler of /api/gaming/releases, one step per request and per join  *)
(***************************************************************************)
GamesRunIdle ==
    [pc |-> "idle", releases |-> << >>, games |-> << >>, searches |-> << >>,
     reviews |-> << >>,
     descriptions |-> << >>, list |-> << >>]

\* fetchTodayReleases has returned; backfillSteamAppIds starts one search
\* for every game in needsSearch
GamesStart(listed) ==
    /\ gamesRun.pc = "idle"
    /\ \E releases \in {fetchTodayReleases("ok", "ok", listed).list} :
          gamesRun' = [pc |-> "backfill", releases |-> releases, games |-> releases,
                       searches |-> [i \in DOMAIN releases |->
                                       IF NeedsSearch(releases[i]) THEN "pending"
                                       ELSE "unasked"],
                       reviews |-> [i \in DOMAIN releases |-> "unasked"],
                       descriptions |-> [i \in DOMAIN releases |-> "unasked"],
                       list |-> << >>]
    /\ UNCHANGED <<now, rateVars, artistVars, chartVars, feedVars, dateVars, lateVars>>

\* one searchSteamAppId call returns
SearchSettles(i, kind) ==
    /\ gamesRun.pc = "backfill"
    /\ i \in DOMAIN gamesRun.searches
    /\ gamesRun.searches[i] = "pending"
    /\ gamesRun' = [gamesRun EXCEPT !.searches[i] = kind]
    /\ UNCHANGED <<now, rateVars, artistVars, chartVars, feedVars, dateVars, lateVars>>

\* a join that does not wait for the searches
BackfillBegun(run) == run.pc = "backfill"

\* await Promise.allSettled(needsSearch.map(...)) has resumed
BackfillSettled(run) ==
    /\ run.pc = "backfill"
    /\ \A i \in DOMAIN run.searches : run.searches[i] # "pending"

\* backfillSteamAppIds writes the ids found and returns; fetchAllSteamReviews
\* and fetchAllSteamDescriptions start one request each for every game
\* with steamAppId !== null
StartEnrichment ==
    /\ BackfillSettled(gamesRun)
    /\ \E games \in {backfillSteamAppIds(gamesRun.games, gamesRun.searches)} :
          gamesRun' = [gamesRun EXCEPT
                          !.pc = "enrich",
                          !.games = games,
                          !.reviews = [i \in DOMAIN games |->
                                         IF games[i].steamAppId # Null THEN "pending"
                                         ELSE "unasked"],
                          !.descriptions = [i \in DOMAIN games |->
                                              IF games[i].steamAppId # Null THEN "pending"
                                              ELSE "unasked"]]
    /\ UNCHANGED <<now, rateVars, artistVars, chartVars, feedVars, dateVars, lateVars>>

\* one fetchSteamReviews call returns
ReviewSettles(i, kind) ==
    /\ gamesRun.pc = "enrich"
    /\ i \in DOMAIN gamesRun.reviews
    /\ gamesRun.reviews[i] = "pending"
    /\ gamesRun' = [gamesRun EXCEPT !.reviews[i] = kind]
    /\ UNCHANGED <<now, rateVars, artistVars, chartVars, feedVars, dateVars, lateVars>>

\* one fetchSteamDescription call returns
DescriptionSettles(i, kind) ==
    /\ gamesRun.pc = "enrich"
    /\ i \in DOMAIN gamesRun.descriptions
    /\ gamesRun.descriptions[i] = "pending"
    /\ gamesRun' = [gamesRun EXCEPT !.descriptions[i] = kind]
    /\ UNCHANGED <<now, rateVars, artistVars, chartVars, feedVars, dateVars, lateVars>>

\* await Promise.all([...]) has resumed: the merge and the sort
GamesMerge ==
    /\ gamesRun.pc = "enrich"
    /\ \A i \in DOMAIN gamesRun.games :
          gamesRun.reviews[i] # "pending" /\ gamesRun.descriptions[i] # "pending"
    /\ gamesRun' = [gamesRun EXCEPT
                       !.pc = "done",
                       !.list = EnrichGames(gamesRun.games, gamesRun.searches,
                                            gamesRun.reviews, gamesRun.descriptions)]
    /\ UNCHANGED <<now, rateVars, artistVars, chartVars, feedVars, dateVars, lateVars>>

\* res.json(filtered): the handler ends
GamesAnswered ==
    /\ gamesRun.pc = "done"
    /\ gamesRun' = GamesRunIdle
    /\ UNCHANGED <<now, rateVars, artistVars, chartVars, feedVars, dateVars, lateVars>>

(***************************************************************************)
(* fetchTopCharts: the derivation of topAlbums on longer genre lists       *)
(***************************************************************************)
\* the album Last.fm lists for genre g at rank r; in the genre whose list
\* echoes the first genre's, the same album with the artist in other case
RankedAlbum(g, r, echo) ==
    IF g = echo
    THEN ChartAlbum("album-" \o ToString(r), "abba", Genres[g])
    ELSE ChartAlbum("album-" \o ToString((g - 1) * MaxChartRank + r), "ABBA", Genres[g])

\* the eight results of fetchTopAlbumsForTag: the first two lists of any
\* length up to MaxChartRank, the others empty or full
GenreResultsChoices ==
    { [g \in DOMAIN Genres |-> [r \in 1..lens[g] |-> RankedAlbum(g, r, echo)]] :
         lens \in {l \in [DOMAIN Genres -> 0..MaxChartRank] :
                      \A g \in DOMAIN Genres : g > 2 => l[g] \in {0, MaxChartRank}},
         echo \in {0} \cup (2..Len(Genres)) }

NoTopCall == [done |-> FALSE, genreResults |-> NoGenreResults, topAlbums |-> << >>]

\* the round-robin loops of one fetchTopCharts call
DeriveTopAlbums(genreResults) ==
    /\ ~topCall.done
    /\ topCall' = [done |-> TRUE, genreResults |-> genreResults,
                   topAlbums |-> TopAlbums(genreResults)]
    /\ UNCHANGED allButTopCall

\* the call returns
TopAlbumsReturned ==
    /\ topCall.done
    /\ topCall' = NoTopCall
    /\ UNCHANGED allButTopCall

(***************************************************************************)
(* fetchITunesAlbumInfo, one query at a time                               *)
(***************************************************************************)
\* the albums looked up
ITunesAlbums == {"Gold", "Gold (Deluxe)"}

\* album.replace(/\s*\(.*?\)/g, '') on the names of the model
StripParenthetical(album) == IF album = "Gold (Deluxe)" THEN "Gold" ELSE album

\* const queries = [`${artist} ${album}`, album, `${artist} ${stripped}`]
ITunesQueries(artist, album) ==
    <<artist \o " " \o album, album, artist \o " " \o StripParenthetical(album)>>

\* The replies to one search: the request throws, a non-2xx status, a body
\* without results, a first result without releaseDate, with an empty one,
\* or with a date, the artwork present or not.
ITunesReplies ==
    { [kind |-> "throws", artworkUrl100 |-> Null, releaseDate |-> Null],
      [kind |-> "non2xx", artworkUrl100 |-> Null, releaseDate |-> Null],
      [kind |-> "ok", artworkUrl100 |-> Null, releaseDate |-> "none"],
      [kind |-> "ok", artworkUrl100 |-> "a/100x100.jpg", releaseDate |-> Null],
      [kind |-> "ok", artworkUrl100 |-> "a/100x100.jpg", releaseDate |-> ""],
      [kind |-> "ok", artworkUrl100 |-> "a/100x100.jpg", releaseDate |-> "2024-05-03T07:00:00Z"],
      [kind |-> "ok", artworkUrl100 |-> Null, releaseDate |-> "2024-05-03T07:00:00Z"] }

\* the body has a first result (releaseDate "none" stands for no result at all)
HasResult(reply) == reply.kind = "ok" /\ reply.releaseDate # "none"

\* result.artworkUrl100?.replace('100x100', '300x300') ?? null
ArtworkOf(reply) ==
    IF reply.artworkUrl100 = "a/100x100.jpg" THEN "a/300x300.jpg" ELSE Null

\* result.releaseDate?.slice(0, 10) ?? null
ReleaseDateOf(reply) ==
    CASE reply.releaseDate = "2024-05-03T07:00:00Z" -> "2024-05-03"
      [] reply.releaseDate = "" -> ""
      [] OTHER -> Null

\* a test that is content with any first result
ReturnsOnResult(reply) == HasResult(reply)

\* if (releaseDate) return { artwork, releaseDate }
ReturnsOn(reply) ==
    HasResult(reply) /\ ReleaseDateOf(reply) # Null /\ ReleaseDateOf(reply) # ""

ITunesNullResult == [artwork |-> Null, releaseDate |-> Null]

ITunesIdle ==
    [pc |-> "idle", artist |-> Null, album |-> Null, log |-> << >>, result |-> ITunesNullResult]

\* fetchITunesAlbumInfo(artist, album) is called
ITunesStart(artist, album) ==
    /\ itunes.pc = "idle"
    /\ itunes' = [ITunesIdle EXCEPT !.pc = "querying", !.artist = artist, !.album = album]
    /\ UNCHANGED allButItunes

\* the request for the next query of the list is made and answered
ITunesQuery(reply) ==
    /\ itunes.pc = "querying"
    /\ \E log \in {Append(itunes.log,
                         [query |-> ITunesQueries(itunes.artist, itunes.album)[Len(itunes.log) + 1],
                          reply |-> reply])} :
          itunes' = IF ReturnsOn(reply)
                    THEN [itunes EXCEPT !.pc = "returned", !.log = log,
                                        !.result = [artwork |-> ArtworkOf(reply),
                                                    releaseDate |-> ReleaseDateOf(reply)]]
                    ELSE IF Len(log) = Len(ITunesQueries(itunes.artist, itunes.album))
                    THEN [itunes EXCEPT !.pc = "returned", !.log = log,
                                        !.result = ITunesNullResult]
                    ELSE [itunes EXCEPT !.log = log]
    /\ UNCHANGED allButItunes

\* the caller has the result
ITunesDone ==
    /\ itunes.pc = "returned"
    /\ itunes' = ITunesIdle
    /\ UNCHANGED allButItunes

(***************************************************************************)
(* rateLimitedFetch of musicbrainz.ts, one step per stretch between awaits *)
(***************************************************************************)
NumMBCallers == 2       \* requests that may be inside rateLimitedFetch at once
MaxMBTicks == 4         \* advances of the clock that are followed
MBMinGapMs == 1000      \* the gap rateLimitedFetch waits for
MBSteps == {400, 1000}  \* by how much the clock may advance between two steps

MBCallers == 1..NumMBCallers

\* the module is loaded with lastRequestTime = 0, at a Date.now() far from 0
MBInit ==
    [clock |-> MBMinGapMs, ticks |-> 0, lastRequestTime |-> 0,
     pc |-> [c \in MBCallers |-> "idle"],
     wake |-> [c \in MBCallers |-> 0],
     starts |-> << >>]

\* lastRequestTime = Date.now(); return fetch(url, options)
MBStarted(c) ==
    [mb EXCEPT !.lastRequestTime = mb.clock,
               !.pc[c] = "idle",
               !.starts = Append(@, mb.clock)]

\* rateLimitedFetch is called: up to the await, or to the fetch if there is none
RateLimitedFetchCall(c) ==
    /\ mb.pc[c] = "idle"
    /\ \E elapsed \in {mb.clock - mb.lastRequestTime} :
          mb' = IF elapsed < MBMinGapMs
                THEN [mb EXCEPT !.pc[c] = "sleeping",
                                !.wake[c] = mb.clock + (MBMinGapMs - elapsed)]
                ELSE MBStarted(c)
    /\ UNCHANGED allButMb

\* the timer of a suspended call has fired: from the await to the fetch
RateLimitedFetchResume(c) ==
    /\ mb.pc[c] = "sleeping"
    /\ mb.clock >= mb.wake[c]
    /\ mb' = MBStarted(c)
    /\ UNCHANGED allButMb

\* time passes
MBTick ==
    /\ mb.ticks < MaxMBTicks
    /\ \E d \in MBSteps : mb' = [mb EXCEPT !.clock = @ + d, !.ticks = @ + 1]
    /\ UNCHANGED allButMb

(***************************************************************************)
(* The watched-items store of index.ts and db.ts.  Each handler is one     *)
(* action: the file functions are synchronous and each SQL statement is    *)
(* one step of the table.  Of an answer the status is kept.                *)
(***************************************************************************)
MaxWatchedOps == 3      \* requests on the store that are followed

VALID_CATEGORIES == {"movie", "tv", "album", "book"}

\* the categories, ids, titles and ratings that requests carry; "" is a
\* missing id or title
WatchedCategories == {"movie", "book", "game"}
WatchedIds == {"1", "2", ""}
WatchedTitles == {"A", "B", ""}

NullRating == [kind |-> "null", n |-> 0]

IntRating(n) == [kind |-> "int", n |-> n]

\* the values of `rating` in a request body: null, 5, integers out of
\* range, 2.5, the string "3" and no value at all
RatingInputs ==
    {NullRating, IntRating(0), IntRating(5), IntRating(6),
     [kind |-> "float", n |-> 2], [kind |-> "string", n |-> 3],
     [kind |-> "undefined", n |-> 0]}

\* data/watched-movies.json: absent, or holding the movie with id 1
LegacyFiles == {<< >>, <<[id |-> 1, title |-> "Old", addedAt |-> 0]>>}

\* what a read of it gives when writeWatchedItem needs it, which is when there
\* is no watched-items.json
LegacyRead == IF pool \/ watched.exists THEN {<< >>} ELSE LegacyFiles

\* old.map((m) => ({ id: String(m.id), category: 'movie', ..., rating: null }))
MigrateLegacy(old) ==
    [i \in DOMAIN old |->
        [id |-> ToString(old[i].id), category |-> "movie", title |-> old[i].title,
         addedAt |-> old[i].addedAt, rating |-> NullRating]]

NoWatchedReply ==
    [op |-> "none", category |-> Null, id |-> Null, rating |-> NullRating, status |-> 0]

\* no watched-items.json yet, an empty table
WatchedInit ==
    [exists |-> FALSE, items |-> << >>, ops |-> 0, last |-> NoWatchedReply]

\* all.some((i) => i.category === item.category && i.id === item.id)
WatchedExists(all, category, id) ==
    \E i \in DOMAIN all : all[i].category = category /\ all[i].id = id

\* all.push(item) without the test
PushAlways(all, item) == Append(all, item)

\* if (!exists) all.push(item)
PushUnlessExists(all, item) ==
    IF WatchedExists(all, item.category, item.id) THEN all ELSE Append(all, item)

\* writeWatchedItem(item): the file after the call
WriteWatchedItem(item, old) ==
    PushUnlessExists(IF watched.exists THEN watched.items ELSE MigrateLegacy(old), item)

\* INSERT ... ON CONFLICT (category, id) DO NOTHING: the table after the call
DbInsertWatchedItem(item) == PushUnlessExists(watched.items, item)

\* a deletion by id alone
WithoutWatchedId(all, category, id) ==
    SelectSeq(all, LAMBDA i : i.id # id)

\* all.filter((i) => !(i.category === category && i.id === id)), and
\* DELETE FROM watched_items WHERE category = $1 AND id = $2
WithoutWatched(all, category, id) ==
    SelectSeq(all, LAMBDA i : ~(i.category = category /\ i.id = id))

\* if (item) item.rating = rating, and UPDATE ... SET rating = $1 WHERE ...
WithRating(all, category, id, rating) ==
    [i \in DOMAIN all |->
        IF all[i].category = category /\ all[i].id = id
        THEN [all[i] EXCEPT !.rating = rating]
        ELSE all[i]]

\* the test without its range
RatingRejectedUnlessNumber(rating) ==
    rating.kind # "null" /\ rating.kind # "int"

\* rating !== null && (!Number.isInteger(rating) || rating < 1 || rating > 5)
RatingRejected(rating) ==
    rating.kind # "null" /\ (rating.kind # "int" \/ rating.n < 1 \/ rating.n > 5)

\* the request of a step and the status it was answered with
WatchedReply(op, category, id, status) ==
    [op |-> op, category |-> category, id |-> id, rating |-> NullRating, status |-> status]

\* POST /api/watched/:category
PostWatched(category, id, title) ==
    /\ watched.ops < MaxWatchedOps
    /\ \E item \in {[id |-> id, category |-> category, title |-> title,
                     addedAt |-> watched.ops + 1, rating |-> NullRating]},
          old \in LegacyRead :
          watched' =
              IF category \notin VALID_CATEGORIES \/ id = "" \/ title = ""
              THEN [watched EXCEPT !.ops = @ + 1,
                                   !.last = WatchedReply("add", category, id, 400)]
              ELSE [watched EXCEPT
                       !.ops = @ + 1,
                       !.items = IF pool THEN DbInsertWatchedItem(item)
                                 ELSE WriteWatchedItem(item, old),
                       !.exists = IF pool THEN @ ELSE TRUE,
                       !.last = WatchedReply("add", category, id, 200)]
    /\ UNCHANGED allButWatched

\* DELETE /api/watched/:category/:id; deleteWatchedItem returns when there is
\* no file
DeleteWatched(category, id) ==
    /\ watched.ops < MaxWatchedOps
    /\ watched' =
          IF category \notin VALID_CATEGORIES
          THEN [watched EXCEPT !.ops = @ + 1,
                               !.last = WatchedReply("delete", category, id, 400)]
          ELSE [watched EXCEPT
                   !.ops = @ + 1,
                   !.items = IF pool \/ watched.exists
                             THEN WithoutWatched(@, category, id) ELSE @,
                   !.last = WatchedReply("delete", category, id, 200)]
    /\ UNCHANGED allButWatched

\* PATCH /api/watched/:category/:id/rating; updateWatchedItemRating returns
\* when there is no file
PatchRating(category, id, rating) ==
    /\ watched.ops < MaxWatchedOps
    /\ watched' =
          IF category \notin VALID_CATEGORIES \/ RatingRejected(rating)
          THEN [watched EXCEPT !.ops = @ + 1,
                               !.last = [WatchedReply("rate", category, id, 400)
                                          EXCEPT !.rating = rating]]
          ELSE [watched EXCEPT
                   !.ops = @ + 1,
                   !.items = IF pool \/ watched.exists
                             THEN WithRating(@, category, id, rating) ELSE @,
                   !.last = [WatchedReply("rate", category, id, 200)
                              EXCEPT !.rating = rating]]
    /\ UNCHANGED allButWatched

(***************************************************************************)
(* The Spotify OAuth routes of index.ts.  getAuthUrl and                   *)
(* exchangeCodeForTokens belong to spotify.ts: the state getAuthUrl issues *)
(* is any non-empty string, and the exchange succeeds or fails.            *)
(***************************************************************************)
MaxLogins == 2          \* logins that are followed
MaxCallbacks == 3       \* callbacks that are followed

\* which of SPOTIFY_CLIENT_ID and SPOTIFY_CLIENT_SECRET the environment holds
SpotifyCredentials == {"none", "idOnly", "both"}

\* the states getAuthUrl issues
OAuthStates == {"s1", "s2"}

\* the query parameters of a callback; "" is a missing parameter
CallbackCodes == {"", "c"}
CallbackStates == {"", "s1", "s2"}
CallbackErrors == {"", "access_denied"}

NoOAuthReply ==
    [route |-> "none", code |-> "", state |-> "", error |-> "", status |-> 0]

\* let pendingSpotifyState: string | null = null
OAuthInit(creds) ==
    [creds |-> creds, pendingSpotifyState |-> Null, issued |-> << >>,
     exchanges |-> << >>, awaiting |-> 0, callbacks |-> 0, last |-> NoOAuthReply]

\* the test with the comparison of the state left out
InvalidCallbackUncompared(code, state) == code = "" \/ state = ""

\* !code || !state || state !== pendingSpotifyState
InvalidCallback(code, state) ==
    code = "" \/ state = "" \/ state # oauth.pendingSpotifyState

OAuthReply(route, code, state, error, status) ==
    [route |-> route, code |-> code, state |-> state, error |-> error, status |-> status]

\* GET /api/spotify/login
SpotifyLogin(state) ==
    /\ Len(oauth.issued) < MaxLogins
    /\ oauth' =
          IF oauth.creds = "none"
          THEN [oauth EXCEPT !.last = OAuthReply("login", "", "", "", 500)]
          ELSE [oauth EXCEPT !.pendingSpotifyState = state,
                             !.issued = Append(@, state),
                             !.last = OAuthReply("login", "", state, "", 302)]
    /\ UNCHANGED allButOauth

\* GET /api/spotify/callback, up to its answer or to the await of the exchange
SpotifyCallback(code, state, error) ==
    /\ oauth.callbacks < MaxCallbacks
    /\ oauth' =
          IF oauth.creds # "both"
          THEN [oauth EXCEPT !.callbacks = @ + 1,
                             !.last = OAuthReply("callback", code, state, error, 500)]
          ELSE IF error # ""
          THEN [oauth EXCEPT !.callbacks = @ + 1,
                             !.last = OAuthReply("callback", code, state, error, 302)]
          ELSE IF InvalidCallback(code, state)
          THEN [oauth EXCEPT !.callbacks = @ + 1,
                             !.last = OAuthReply("callback", code, state, error, 400)]
          ELSE [oauth EXCEPT !.callbacks = @ + 1,
                             !.pendingSpotifyState = Null,
                             !.exchanges = Append(@, [code |-> code, state |-> state,
                                                     login |-> Len(oauth.issued)]),
                             !.awaiting = @ + 1,
                             !.last = OAuthReply("callback", code, state, error, 0)]
    /\ UNCHANGED allButOauth

\* exchangeCodeForTokens settles: the redirect, or the 500 of the catch
ExchangeSettles(ok) ==
    /\ oauth.awaiting > 0
    /\ oauth' = [oauth EXCEPT !.awaiting = @ - 1,
                              !.last = OAuthReply("exchange", "", "", "",
                                                  IF ok THEN 302 ELSE 500)]
    /\ UNCHANGED allButOauth

(***************************************************************************)
(* handleTogglePlay of pages/Music.tsx.  A click runs up to the await of   *)
(* the preview request; the rest of the handler runs when the request has  *)
(* settled.  An audio element plays from play() until pause() or its end.  *)
(***************************************************************************)
MaxClicks == 3          \* clicks that are followed

PlayerArtists == {"A", "B"}

\* what a preview request comes to: a preview that plays, a preview whose
\* play() rejects, no previewUrl, a failed request
PreviewOutcomes == {"plays", "playRejected", "noPreview", "failed"}

PlayerInit ==
    [currentArtist |-> Null,
     artistStates |-> [a \in PlayerArtists |-> "idle"],
     audioRef |-> 0,
     audios |-> << >>,
     fetches |-> << >>,
     timers |-> << >>,
     clicks |-> 0]

\* audioRef.current.pause(); audioRef.current.src = ''
Silenced(audios, ref) ==
    IF ref = 0 THEN audios
    ELSE [audios EXCEPT ![ref] = [@ EXCEPT !.playing = FALSE, !.src = FALSE]]

\* setArtistState(currentArtist, 'idle') when there is a current artist
CurrentIdled(states, current) ==
    IF current = Null THEN states ELSE [states EXCEPT ![current] = "idle"]

\* the sequence without its element at position i
WithoutAt(seq, i) ==
    [j \in 1..(Len(seq) - 1) |-> IF j < i THEN seq[j] ELSE seq[j + 1]]

\* a click on the play button of an artist: handleTogglePlay up to its first
\* await, or to its return
TogglePlayClick(artist) ==
    /\ player.clicks < MaxClicks
    /\ player' =
          IF player.currentArtist = artist
          THEN IF player.audioRef = 0
               THEN [player EXCEPT !.clicks = @ + 1]
               ELSE IF ~player.audios[player.audioRef].playing
               THEN [player EXCEPT
                        !.clicks = @ + 1,
                        !.audios[player.audioRef].playing =
                            player.audios[player.audioRef].src,
                        !.artistStates[artist] = "playing"]
               ELSE [player EXCEPT
                        !.clicks = @ + 1,
                        !.audios[player.audioRef].playing = FALSE,
                        !.artistStates[artist] = "idle",
                        !.currentArtist = Null]
          ELSE [player EXCEPT
                   !.clicks = @ + 1,
                   !.audios = Silenced(@, player.audioRef),
                   !.artistStates =
                       [CurrentIdled(@, player.currentArtist) EXCEPT ![artist] = "loading"],
                   !.currentArtist = artist,
                   !.fetches = Append(@, artist)]
    /\ UNCHANGED allButPlayer

\* the handler's catch and its branch for a missing previewUrl
NoPreview(artist) ==
    [player EXCEPT !.artistStates[artist] = "no-preview",
                   !.currentArtist = Null,
                   !.timers = Append(@, artist)]

\* the preview request of the i-th pending call settles: the handler from its
\* await to its end
PreviewSettles(i, outcome) ==
    /\ i \in DOMAIN player.fetches
    /\ \E artist \in {player.fetches[i]} :
          player' =
              IF outcome \in {"noPreview", "failed"}
              THEN [NoPreview(artist) EXCEPT !.fetches = WithoutAt(@, i)]
              ELSE IF outcome = "playRejected"
              THEN [NoPreview(artist) EXCEPT
                       !.fetches = WithoutAt(@, i),
                       !.audios = Append(@, [artist |-> artist, playing |-> FALSE,
                                             src |-> TRUE]),
                       !.audioRef = Len(player.audios) + 1]
              ELSE [player EXCEPT
                       !.fetches = WithoutAt(@, i),
                       !.audios = Append(@, [artist |-> artist, playing |-> TRUE,
                                             src |-> TRUE]),
                       !.audioRef = Len(player.audios) + 1,
                       !.artistStates[artist] = "playing"]
    /\ UNCHANGED allButPlayer

\* audio.addEventListener('ended', ...): a playing element reaches its end
AudioEnded(i) ==
    /\ i \in DOMAIN player.audios
    /\ player.audios[i].playing
    /\ player' = [player EXCEPT !.audios[i].playing = FALSE,
                                !.artistStates[player.audios[i].artist] = "idle",
                                !.currentArtist = Null]
    /\ UNCHANGED allButPlayer

\* setTimeout(() => setArtistState(artist, 'idle'), 2000) fires
NoPreviewTimer(i) ==
    /\ i \in DOMAIN player.timers
    /\ player' = [player EXCEPT !.timers = WithoutAt(@, i),
                                !.artistStates[player.timers[i]] = "idle"]
    /\ UNCHANGED allButPlayer

\* the state after the modules are loaded; db tells whether DATABASE_URL is
\* set, creds which of the Spotify credentials are
InitWith(db, creds) ==
    /\ now = 0
    /\ requestTimestamps = << >>
    /\ rl = [i \in 1..NumCalls |-> RlIdle]
    /\ cache = << >>
    /\ runs = [r \in 1..NumSlots |-> RunIdle]
    /\ hist = HistInit
    /\ chartsCache = NoCharts
    /\ chartReqs = [q \in 1..NumSlots |-> ChartReqIdle]
    /\ chartsHist = ChartsHistInit
    /\ dismissed = {}
    /\ feedCall = NoCall
    /\ resp = NoResp
    /\ today = FirstDay
    /\ weekCall = NoWeekCall
    /\ gamesRun = GamesRunIdle
    /\ topCall = NoTopCall
    /\ itunes = ITunesIdle
    /\ mb = MBInit
    /\ pool = db
    /\ dismissLog = {}
    /\ watched = WatchedInit
    /\ oauth = OAuthInit(creds)
    /\ player = PlayerInit

\* the process starts with or without a database, the Spotify credentials set
Init == \E db \in BOOLEAN : InitWith(db, "both")

\* the start with a database, for the parts of the program that never read pool
InitWithDatabase == InitWith(TRUE, "both")

\* the start with none, one or both of SPOTIFY_CLIENT_ID and SPOTIFY_CLIENT_SECRET
InitOAuth == \E creds \in SpotifyCredentials : InitWith(TRUE, creds)

NextRate ==
    \/ \E i \in 1..NumCalls : RateLimitEnter(i)
    \/ \E i \in 1..NumCalls : RateLimitResume(i)
    \/ RateTick

SpecRate == InitWithDatabase /\ [][NextRate]_vars

NextArtist ==
    \/ \E r \in 1..NumSlots, albums \in AlbumLists : StartRun(r, albums)
    \/ \E r \in 1..NumSlots, t \in 1..MaxAlbums : IssueCall(r, t)
    \/ \E r \in 1..NumSlots, t \in 1..MaxAlbums, o \in ArtistOutcomes : CallSettles(r, t, o)
    \/ \E r \in 1..NumSlots : FinishRun(r)

SpecArtist == InitWithDatabase /\ [][NextArtist]_vars

NextCharts ==
    \/ \E q \in 1..NumSlots : ChartsStart(q)
    \/ \E q \in 1..NumSlots, up \in ChartUpstreams : ChartsListsSettle(q, up)
    \/ \E q \in 1..NumSlots :
          \E trackArt \in ArtChoices(chartReqs[q].payload.topTracks),
             artistArt \in ArtChoices(chartReqs[q].payload.topArtists),
             dates \in DateChoices(chartReqs[q].payload.topAlbums) :
             ChartsBackfillSettle(q, trackArt, artistArt, dates)
    \/ ChartsTick
    \/ ChartsYield

SpecCharts == InitWithDatabase /\ [][NextCharts]_vars

NextFeed ==
    \/ /\ resp.status = 0
       /\ \E kind \in PrimaryKinds, n \in 0..MaxTitles :
             /\ ResOk(kind) \/ n = 0
             /\ \E credits \in [1..n -> CreditKinds] : GetUpcomingMovies(kind, n, credits)
    \/ /\ resp.status = 0
       /\ \E kind \in PrimaryKinds, n \in 0..MaxPageSize, total_pages \in 1..MaxPages :
             /\ ResOk(kind) \/ (n = 0 /\ total_pages = 1)
             /\ \E pages \in ExtraPageChoices(kind, n, total_pages) :
                   \E details \in DetailChoices(kind, Titles(n), pages) :
                      GetNowPlayingMovies(kind, n, pages, details)
    \/ /\ resp.status = 0
       /\ \E personId \in {0, 7}, kind \in PrimaryKinds :
             /\ personId > 0 \/ kind = "ok"
             /\ GetFilmography(personId, kind)
    \/ /\ resp.status = 0
       /\ \E tokenKind \in PrimaryKinds, kind \in PrimaryKinds, listed \in GameLists :
             /\ ResOk(tokenKind) \/ kind = "ok"
             /\ (ResOk(tokenKind) /\ ResOk(kind)) \/ listed = << >>
             /\ \E releases \in {fetchTodayReleases(tokenKind, kind, listed).list} :
                \E searches \in SearchChoices(releases) :
                   \E games \in {backfillSteamAppIds(releases, searches)} :
                   \E reviews \in SteamChoices(games), descriptions \in SteamChoices(games) :
                      GetGameReleases(tokenKind, kind, listed, searches, reviews, descriptions)
    \/ /\ resp.status = 0
       /\ \E kind \in PrimaryKinds, listed \in ReleaseLists :
             /\ ResOk(kind) \/ listed = << >>
             /\ \E lookups \in LookupChoices(fetchUpcomingFridayAlbums(kind, listed).list),
                   spotify \in SpotifyKinds :
                   /\ ResOk(kind) \/ spotify = "skip"
                   /\ GetUpcomingAlbums(kind, listed, lookups, spotify)
    \/ \E d \in DismissRequests : PostDismissed(d[1], d[2])
    \/ ResponseSent

SpecFeed == Init /\ [][NextFeed]_vars

\* GET /api/music/upcoming on its own, over the longer release lists
NextMusic ==
    \/ /\ resp.status = 0
       /\ \E kind \in PrimaryKinds, listed \in MusicReleaseLists :
             /\ ResOk(kind) \/ listed = << >>
             /\ \E lookups \in LookupChoices(fetchUpcomingFridayAlbums(kind, listed).list),
                   spotify \in SpotifyKinds :
                   /\ ResOk(kind) \/ spotify = "skip"
                   /\ GetUpcomingAlbums(kind, listed, lookups, spotify)
    \/ ResponseSent

SpecMusic == InitWithDatabase /\ [][NextMusic]_vars

NextDates ==
    \/ ReleaseWeekCall
    \/ UpcomingFridayCall
    \/ DayPasses

SpecDates == InitWithDatabase /\ [][NextDates]_vars

NextGames ==
    \/ \E listed \in GameLists : GamesStart(listed)
    \/ \E i \in 1..Len(IGDBGames), kind \in SearchKinds : SearchSettles(i, kind)
    \/ StartEnrichment
    \/ \E i \in 1..Len(IGDBGames), kind \in SteamKinds : ReviewSettles(i, kind)
    \/ \E i \in 1..Len(IGDBGames), kind \in SteamKinds : DescriptionSettles(i, kind)
    \/ GamesMerge
    \/ GamesAnswered

SpecGames == InitWithDatabase /\ [][NextGames]_vars

NextTopAlbums ==
    \/ \E genreResults \in GenreResultsChoices : DeriveTopAlbums(genreResults)
    \/ TopAlbumsReturned

SpecTopAlbums == InitWithDatabase /\ [][NextTopAlbums]_vars

NextITunes ==
    \/ \E album \in ITunesAlbums : ITunesStart("ABBA", album)
    \/ \E reply \in ITunesReplies : ITunesQuery(reply)
    \/ ITunesDone

SpecITunes == InitWithDatabase /\ [][NextITunes]_vars

NextMB ==
    \/ \E c \in MBCallers : RateLimitedFetchCall(c)
    \/ \E c \in MBCallers : RateLimitedFetchResume(c)
    \/ MBTick

SpecMB == InitWithDatabase /\ [][NextMB]_vars

NextWatched ==
    \/ \E category \in WatchedCategories, id \in WatchedIds, title \in WatchedTitles :
          PostWatched(category, id, title)
    \/ \E category \in WatchedCategories, id \in WatchedIds \ {""} :
          DeleteWatched(category, id)
    \/ \E category \in WatchedCategories, id \in WatchedIds \ {""},
          rating \in RatingInputs : PatchRating(category, id, rating)

SpecWatched == Init /\ [][NextWatched]_vars

NextOAuth ==
    \/ \E state \in OAuthStates : SpotifyLogin(state)
    \/ \E code \in CallbackCodes, state \in CallbackStates, error \in CallbackErrors :
          SpotifyCallback(code, state, error)
    \/ \E ok \in BOOLEAN : ExchangeSettles(ok)

SpecOAuth == InitOAuth /\ [][NextOAuth]_vars

NextPlayer ==
    \/ \E artist \in PlayerArtists : TogglePlayClick(artist)
    \/ \E i \in 1..MaxClicks, outcome \in PreviewOutcomes : PreviewSettles(i, outcome)
    \/ \E i \in 1..MaxClicks : AudioEnded(i)
    \/ \E i \in 1..MaxClicks : NoPreviewTimer(i)

SpecPlayer == InitWithDatabase /\ [][NextPlayer]_vars

Recorded == {i \in 1..NumCalls : rl[i].pc = "done"}

\* C1: at most 5 request timestamps are recorded within any rolling 1000 ms
\* window [t, t + 1000), whatever the number of callers and the order in which
\* suspended callers resume.
C1_AtMostFivePerWindow ==
    \A i \in Recorded :
        Cardinality({j \in Recorded : /\ rl[j].at >= rl[i].at
                                      /\ rl[j].at < rl[i].at + RateWindowMs})
            <= RateCapacity

\* C2: from an empty window, the first 5 calls record their timestamp without
\* suspending, and the 6th call does not record its timestamp before 1000 ms
\* have elapsed since the timestamp recorded by the 1st call.
C2_SixthWaitsForWindow ==
    /\ \A i \in 1..RateCapacity :
          rl[i].pc # "idle" => (rl[i].pc = "done" /\ ~rl[i].suspended)
    /\ rl[RateCapacity + 1].pc = "waiting" =>
          rl[RateCapacity + 1].wakeAt >= rl[1].at + RateWindowMs
    /\ rl[RateCapacity + 1].pc = "done" =>
          rl[RateCapacity + 1].at >= rl[1].at + RateWindowMs

\* six calls issued at the same instant: five recorded at once, the sixth
\* suspended and recorded exactly one window later
C2_Witness ==
    /\ \A i \in 1..RateCapacity : rl[i].pc = "done" /\ rl[i].at = 0
    /\ rl[RateCapacity + 1].pc = "done"
    /\ rl[RateCapacity + 1].suspended
    /\ rl[RateCapacity + 1].wakeAt = RateWindowMs
    /\ rl[RateCapacity + 1].at = RateWindowMs

Tasks == {<<r, t>> \in (1..NumSlots) \X (1..MaxAlbums) : t \in DOMAIN runs[r].tasks}

\* C6: while runs of the artist-popularity enrichment follow one another, an
\* artist name (compared case-insensitively) costs exactly one artist.getinfo
\* call: a lookup of a name that an earlier lookup has returned is answered
\* from the cache, with the value the first lookup returned.
C6_SecondRunFromCache ==
    ~hist.overlapped =>
        /\ \A k \in ArtistKeys :
              /\ hist.calls[k] <= 1
              /\ hist.first[k].known => hist.calls[k] = 1
        /\ \A rt \in Tasks :
              LET task == runs[rt[1]].tasks[rt[2]] IN
              /\ task.prior # "none" => task.hit
              /\ task.pc = "done" => task.info = hist.first[Lower(task.artist)].info

\* a second run, under the other spelling, answered from the cache with the
\* listener count the first run fetched
C6_Witness ==
    /\ ~hist.overlapped
    /\ hist.started = 2
    /\ hist.calls["abba"] = 1
    /\ hist.first["abba"].artist = "ABBA"
    /\ \E rt \in Tasks :
          LET task == runs[rt[1]].tasks[rt[2]] IN
          /\ task.artist = "abba"
          /\ task.hit
          /\ task.info = [listeners |-> 500, genre |-> "rock"]

\* C7: a failed artist lookup stores {listeners: null, genre: null} under the
\* lowercased name, and every lookup of that name started later is answered
\* with that null result, without an upstream call.
C7_FailureCachedForLife ==
    /\ \A k \in hist.failed : k \in DOMAIN cache
    /\ \A rt \in Tasks :
          LET task == runs[rt[1]].tasks[rt[2]] IN
          task.prior = "failed" => (task.hit /\ task.info = NullResult)

\* C8: a call of fetchTopCharts returns the stored payload, with no upstream
\* call, exactly when a payload was stored less than CHARTS_CACHE_TTL before
\* the call; every other call refreshes (all ten list calls) and its result,
\* all-failed empty lists included, replaces the stored payload and timestamp;
\* the stored payload is always that of the last refresh to finish.
C8_ChartsCacheTtl ==
    /\ chartsHist.last.kind = "hit" =>
          /\ chartsCache.present
          /\ now - chartsCache.timestamp < CHARTS_CACHE_TTL
          /\ chartsHist.last.data = chartsCache.data
          /\ chartsHist.last.listCalls = 0
    /\ chartsHist.last.kind = "refresh" =>
          /\ ~chartsCache.present \/ now - chartsCache.timestamp >= CHARTS_CACHE_TTL
          /\ chartsHist.last.listCalls = 2 + Len(Genres)
    /\ IF chartsHist.refreshed.done
       THEN /\ chartsCache.present
            /\ chartsCache.data = chartsHist.refreshed.data
            /\ chartsCache.timestamp = chartsHist.refreshed.at
       ELSE ~chartsCache.present

\* a refresh whose list calls all failed was stored, and a later call inside
\* the TTL was answered with that empty payload
C8_Witness ==
    /\ chartsHist.last.kind = "hit"
    /\ chartsHist.last.data = EmptyPayload
    /\ chartsCache.timestamp > 0
    /\ now = chartsCache.timestamp + ChartsTickMs

\* the feeds whose items carry an id
ItemFeeds == {"games", "upcoming-movies", "now-playing", "albums"}

\* C3: once the primary list call of a feed has succeeded, the feed function
\* does not raise whatever later call fails, the endpoint answers 200, and
\* the games and movie feeds return one item per item listed.
C3_OnlyPrimaryFailureRaises ==
    (/\ feedCall.feed # "none"
     /\ feedCall.primaryOk
     /\ ~(feedCall.feed = "albums" /\ SpotifyStageRaises(feedCall.outcomes.spotify))) =>
        /\ ~feedCall.raised
        /\ resp.status = 200
        /\ feedCall.feed \in {"games", "upcoming-movies", "now-playing"} =>
              Len(feedCall.list) = Len(feedCall.titles)

\* C4: when the primary list call of a feed fails (network error or non-2xx
\* status) the feed function raises and the endpoint answers 500 with an
\* error body and no items.
C4_PrimaryFailureAnswers500 ==
    (feedCall.feed # "none" /\ ~feedCall.primaryOk) =>
        /\ feedCall.raised
        /\ feedCall.list = << >>
        /\ resp.status = 500
        /\ resp.error # Null
        /\ resp.items = << >>

\* the IGDB list call failed and the games endpoint answered 500
C4_Witness ==
    /\ feedCall.feed = "games"
    /\ ~feedCall.primaryOk
    /\ resp.status = 500
    /\ resp.error = "Failed to fetch game releases"

MovieFeeds == {"upcoming-movies", "now-playing"}

\* a per-title call that failed: network error or timeout, or a non-2xx status
FailedKinds == {"neterr", "non2xx"}

\* JSON null in a field whose other values are lists
NullList == <<Null>>

\* the first four cast members of title m by credit order
BilledCast(m) == [c \in 1..4 |-> "actor-" \o ToString(m) \o "-" \o ToString(c - 1)]

\* item is the MovieRelease of the i-th title listed: the title's own id and
\* title; after a failed per-title call no director, no revenue and
\* failedCast as cast; otherwise what the title's own call returned
IsReleaseOf(item, i, failedCast) ==
    LET m == feedCall.titles[i].id
        credited == feedCall.feed = "upcoming-movies" \/ m % 3 # 0
    IN /\ item.id = m
       /\ item.title = feedCall.titles[i].title
       /\ feedCall.outcomes[i] \in FailedKinds =>
             /\ item.director = Null
             /\ item.directorId = NoNum
             /\ item.cast = failedCast
             /\ item.revenue = NoNum
       /\ feedCall.outcomes[i] = "ok" =>
             /\ item.director = IF credited THEN "director-" \o ToString(m) ELSE Null
             /\ item.directorId = IF credited THEN 100 + m ELSE NoNum
             /\ item.cast = IF credited THEN BilledCast(m) ELSE << >>
             /\ item.revenue = IF feedCall.feed = "now-playing" /\ m % 2 = 1
                               THEN 1000 * m ELSE NoNum

\* C5 as stated: a movie feed returns exactly one MovieRelease per title
\* listed, and the items whose per-title call failed have null director,
\* null cast and null revenue.
C5_FailedItemsHaveNullCast ==
    (feedCall.feed \in MovieFeeds /\ ~feedCall.raised) =>
        /\ Len(feedCall.list) = Len(feedCall.titles)
        /\ \A i \in DOMAIN feedCall.titles :
              \E j \in DOMAIN feedCall.list : IsReleaseOf(feedCall.list[j], i, NullList)

\* C5, amended: a movie feed returns exactly one MovieRelease per title
\* listed, whichever per-title calls fail; the items whose call failed have
\* null director and revenue and the empty list as cast, the others carry
\* the values their own calls returned.
C5_OneReleasePerTitle ==
    (feedCall.feed \in MovieFeeds /\ ~feedCall.raised) =>
        /\ Len(feedCall.list) = Len(feedCall.titles)
        /\ \A i \in DOMAIN feedCall.titles :
              \E j \in DOMAIN feedCall.list : IsReleaseOf(feedCall.list[j], i, << >>)

\* the upcoming feed listed five titles, the credits calls of two of them
\* failed, and five items were returned
C5_Witness ==
    /\ feedCall.feed = "upcoming-movies"
    /\ ~feedCall.raised
    /\ Len(feedCall.titles) = 5
    /\ Cardinality({i \in DOMAIN feedCall.outcomes : feedCall.outcomes[i] \in FailedKinds}) = 2
    /\ Len(feedCall.list) = 5

\* C9: the ids of the items a feed function returns are pairwise distinct.
C9_IdsPairwiseDistinct ==
    feedCall.feed \in ItemFeeds =>
        \A i, j \in DOMAIN feedCall.list :
            i # j => feedCall.list[i].id # feedCall.list[j].id

\* a store search that found nothing: it failed or returned no items
NoMatchKinds == {"neterr", "non2xx", "noItems"}

\* one of the platform names is PC (Microsoft Windows), Mac or Linux in any case
HasPcPlatform(platforms) ==
    \E p \in DOMAIN platforms :
        Lower(platforms[p]) \in {"pc (microsoft windows)", "mac", "linux"}

CategoryOf(feed) ==
    CASE feed = "games" -> "game"
      [] feed = "albums" -> "album"
      [] OTHER -> "movie"

\* String(item.id): the decimal digits of a numeric id, a string id as it is
IdString(feed, item) == IF feed = "albums" THEN item.id ELSE ToString(item.id)

\* the item_id values stored for the category of a feed
DismissedIdsOf(feed) ==
    {itemId \in {d[2] : d \in dismissed} : <<CategoryOf(feed), itemId>> \in dismissed}

\* the items of list whose id string is not dismissed, in the order of list
Undismissed(feed, list) ==
    SelectSeq(list, LAMBDA item : IdString(feed, item) \notin DismissedIdsOf(feed))

\* C11: the items a feed endpoint answers with are exactly the items of the
\* sorted list whose id, as a string, is not among the dismissed ids of the
\* feed's category, in the order of the sorted list; filtering the answer
\* again with the same dismissed ids changes nothing.
C11_DismissalFilter ==
    (feedCall.feed \in ItemFeeds /\ resp.status = 200) =>
        /\ resp.items = Undismissed(feedCall.feed, feedCall.list)
        /\ SelectSeqIds([i \in DOMAIN resp.items |->
                            [key |-> IdString(feedCall.feed, resp.items[i]),
                             item |-> resp.items[i]]],
                        DbGetDismissedCards(CategoryOf(feedCall.feed))) = resp.items

\* the games feed sorted two games, the first of them was dismissed (as were a
\* movie and an album with other ids) and the answer holds the second only
C11_Witness ==
    /\ feedCall.feed = "games"
    /\ resp.status = 200
    /\ Len(feedCall.list) = 2
    /\ feedCall.list[2].id = 1
    /\ dismissed = {<<"game", "1">>, <<"movie", "1">>, <<"album", "r1">>}
    /\ resp.items = <<feedCall.list[1]>>

\* the list of the albums endpoint has a listener count at position i
HasListeners(i) == feedCall.list[i].artistListeners # NoNum

\* C12: in the list the albums endpoint sorts, every album with a known
\* listener count precedes every album without one; albums with a count are in
\* non-increasing order of the count; albums without one are in ascending
\* order of the artist name.
C12_AlbumOrder ==
    (feedCall.feed = "albums" /\ ~feedCall.raised) =>
        \A i, j \in DOMAIN feedCall.list :
            i < j =>
               /\ HasListeners(j) => HasListeners(i)
               /\ (HasListeners(i) /\ HasListeners(j)) =>
                     feedCall.list[i].artistListeners >= feedCall.list[j].artistListeners
               /\ (~HasListeners(i) /\ ~HasListeners(j)) =>
                     ArtistRank(feedCall.list[i].artist) <= ArtistRank(feedCall.list[j].artist)

\* MusicBrainz lists ABBA, Beck and Cher in that order; only Beck has a
\* listener count: the answer is Beck, ABBA, Cher
C12_Witness ==
    /\ feedCall.feed = "albums"
    /\ [i \in DOMAIN feedCall.titles |-> feedCall.titles[i].id] = <<"r1", "r5", "r6">>
    /\ [i \in DOMAIN feedCall.list |-> feedCall.list[i].artist] = <<"Beck", "ABBA", "Cher">>
    /\ [i \in DOMAIN feedCall.list |-> feedCall.list[i].artistListeners] = <<500, NoNum, NoNum>>
    /\ resp.status = 200

\* two albums with different listener counts, listed by MusicBrainz with the
\* smaller count first
C12_WitnessCounts ==
    /\ feedCall.feed = "albums"
    /\ [i \in DOMAIN feedCall.titles |-> feedCall.titles[i].id] = <<"r5", "r6">>
    /\ [i \in DOMAIN feedCall.list |-> feedCall.list[i].artistListeners] = <<500, 90>>
    /\ feedCall.list[1].artist = "Cher"

\* C13: on every weekday the release Friday is a Friday: on Monday to Friday
\* the Friday of the same week (the day itself on a Friday), on Saturday the
\* day before, on Sunday two days before; the movie window starts six days
\* before that Friday and ends on it.
C13_ReleaseFriday ==
    weekCall.fn # "none" =>
        \E f \in DayNumber(today) - 2 .. DayNumber(today) + 4 :
            /\ (f + 4) % 7 = 5
            /\ GetDay(today) \in 1..5 => f >= DayNumber(today)
            /\ GetDay(today) = 6 => f = DayNumber(today) - 1
            /\ GetDay(today) = 0 => f = DayNumber(today) - 2
            /\ weekCall.friday = formatDate(DateOfDayNumber(f))
            /\ weekCall.fn = "getReleaseWeek" =>
                  weekCall.weekStart = formatDate(DateOfDayNumber(f - 6))

\* Sunday 3 January 2027: the Friday is New Year's Day and the window starts
\* in the year before
C13_Witness ==
    /\ today = [y |-> 2027, m |-> 1, d |-> 3]
    /\ GetDay(today) = 0
    /\ weekCall = [fn |-> "getReleaseWeek", friday |-> "2027-01-01",
                   weekStart |-> "2026-12-26"]

\* the release at position i of the MusicBrainz result has a release group
\* that no earlier release of the result has
FirstOfGroup(i) ==
    /\ feedCall.titles[i].rg # Null
    /\ \A j \in 1..(i - 1) : feedCall.titles[j].rg # feedCall.titles[i].rg

\* the positions of the result with the first release of each release group
FirstsOfGroups == {i \in DOMAIN feedCall.titles : FirstOfGroup(i)}

\* C14: fetchUpcomingFridayAlbums returns one AlbumRelease per distinct
\* release-group id of the MusicBrainz result, made from the first release of
\* the result that carries the id; releases without a release-group id are
\* omitted; the albums are in the order of the result.  The endpoint answers
\* with the same albums.
C14_OnePerReleaseGroup ==
    (feedCall.feed = "albums" /\ ~feedCall.raised) =>
        LET albums == fetchUpcomingFridayAlbums("ok", feedCall.titles).list IN
        /\ Len(albums) = Cardinality(FirstsOfGroups)
        /\ \A k \in DOMAIN albums :
              \E i \in FirstsOfGroups :
                 /\ Cardinality({j \in FirstsOfGroups : j < i}) = k - 1
                 /\ albums[k].id = feedCall.titles[i].id
                 /\ albums[k].title = feedCall.titles[i].title
        /\ {feedCall.list[k].id : k \in DOMAIN feedCall.list} =
              {feedCall.titles[i].id : i \in FirstsOfGroups}

\* the result lists two releases of one release group, a release without a
\* release group and a release of another group: two albums are answered
C14_Witness ==
    /\ feedCall.feed = "albums"
    /\ [i \in DOMAIN feedCall.titles |-> feedCall.titles[i].id] = <<"r1", "r2", "r4", "r5">>
    /\ [i \in DOMAIN feedCall.titles |-> feedCall.titles[i].rg] = <<"g1", "g1", Null, "g3">>
    /\ {resp.items[k].id : k \in DOMAIN resp.items} = {"r1", "r5"}
    /\ resp.status = 200

\* C15: when the Spotify tagging step of GET /api/music/upcoming fails (in the
\* sign-in check, the token refresh or the artist request) after the album
\* list was fetched, the endpoint answers 200 with the sorted albums that are
\* not dismissed, none of them flagged inSpotifyLibrary.
C15_SpotifyFailureStillAnswers ==
    (/\ feedCall.feed = "albums"
     /\ feedCall.primaryOk
     /\ feedCall.outcomes.spotify \in SpotifyFailures) =>
        /\ resp.status = 200
        /\ resp.items = Undismissed("albums", feedCall.list)
        /\ \A i \in DOMAIN resp.items : ~resp.items[i].inSpotifyLibrary

\* hypes + follows of the game as IGDB lists it, a missing value counting 0
IgdbPopularity(id) ==
    LET game == IGDBGames[id] IN
    (IF game.hypes = NoNum THEN 0 ELSE game.hypes)
       + (IF game.follows = NoNum THEN 0 ELSE game.follows)

\* C16: the games endpoint orders the games by non-increasing hypes + follows
\* (a missing value counting 0) and, among games of equal popularity, by
\* ascending name.
C16_GameOrder ==
    (feedCall.feed = "games" /\ ~feedCall.raised) =>
        \A i, j \in DOMAIN feedCall.list :
            i < j =>
               \/ IgdbPopularity(feedCall.list[i].id) > IgdbPopularity(feedCall.list[j].id)
               \/ /\ IgdbPopularity(feedCall.list[i].id) = IgdbPopularity(feedCall.list[j].id)
                  /\ NameRank(feedCall.list[i].name) <= NameRank(feedCall.list[j].name)

\* IGDB lists Portal (hypes 2, follows 3) before Hades (no hypes, follows 5):
\* equal popularity, so Hades is answered first
C16_Witness ==
    /\ feedCall.feed = "games"
    /\ [i \in DOMAIN feedCall.titles |-> feedCall.titles[i].name] = <<"Portal", "Hades">>
    /\ [i \in DOMAIN feedCall.list |-> feedCall.list[i].name] = <<"Hades", "Portal">>
    /\ resp.status = 200

\* TMDB lists the title with a release date before the day six months ago
ReleasedLongAgo(id) == Catalogue[id].release_date < SixMonthsAgo

\* the popularity TMDB lists for the title, a missing one counting 0
TmdbPopularity(id) ==
    IF Catalogue[id].popularity = NoNum THEN 0 ELSE Catalogue[id].popularity

\* C17: in the now-playing list every title released more than six months ago
\* comes after every other title, and within each of the two groups the titles
\* are in non-increasing order of popularity, a missing popularity counting 0.
C17_NowPlayingOrder ==
    (feedCall.feed = "now-playing" /\ ~feedCall.raised) =>
        \A i, j \in DOMAIN feedCall.list :
            i < j =>
               /\ ReleasedLongAgo(feedCall.list[i].id) => ReleasedLongAgo(feedCall.list[j].id)
               /\ (ReleasedLongAgo(feedCall.list[i].id) = ReleasedLongAgo(feedCall.list[j].id)) =>
                     TmdbPopularity(feedCall.list[i].id) >= TmdbPopularity(feedCall.list[j].id)

\* title 1 (recent, no popularity), title 2 (old, popularity 1) and title 3
\* (recent, popularity 3) are listed in that order and answered as 3, 1, 2
C17_Witness ==
    /\ feedCall.feed = "now-playing"
    /\ [i \in DOMAIN feedCall.titles |-> feedCall.titles[i].id] = <<1, 2, 3>>
    /\ Catalogue[1].popularity = NoNum
    /\ ReleasedLongAgo(2) /\ ~ReleasedLongAgo(1) /\ ~ReleasedLongAgo(3)
    /\ TmdbPopularity(2) > TmdbPopularity(1)
    /\ [i \in DOMAIN feedCall.list |-> feedCall.list[i].id] = <<3, 1, 2>>
    /\ resp.status = 200

\* C18: after the enrichment stage of the albums endpoint every album carries
\* the listener count and the genre that were fetched for its artist, the
\* artist being identified by the lower-cased name as in the deduplication;
\* so the count is missing only if the lookup of that artist yielded none.
C18_AlbumCarriesArtistInfo ==
    (feedCall.feed = "albums" /\ ~feedCall.raised) =>
        \A i \in DOMAIN feedCall.list :
            /\ CacheKey(feedCall.list[i].artist) \in DOMAIN cache
            /\ feedCall.list[i].artistListeners =
                  cache[CacheKey(feedCall.list[i].artist)].listeners
            /\ feedCall.list[i].genre = cache[CacheKey(feedCall.list[i].artist)].genre

\* the position in the IGDB result of the game with the id
ListedAt(id) == CHOOSE i \in DOMAIN feedCall.titles : feedCall.titles[i].id = id

\* C19: for every game with a store id, steamReviews is null exactly when the
\* review request made for that game failed or brought no data, and
\* steamDescription is null exactly when its description request did; what
\* the requests of the other games came to makes no difference, also when two
\* games have the same store id.
C19_OwnSteamOutcomeOnly ==
    (feedCall.feed = "games" /\ ~feedCall.raised) =>
        \A k \in DOMAIN feedCall.list :
            feedCall.list[k].steamAppId # Null =>
               /\ (feedCall.list[k].steamReviews = NoReviews)
                     <=> (feedCall.outcomes[ListedAt(feedCall.list[k].id)].reviews # "ok")
               /\ (feedCall.list[k].steamDescription = Null)
                     <=> (feedCall.outcomes[ListedAt(feedCall.list[k].id)].description # "ok")

\* a review or a description request has been made for the game at position i
EnrichmentAsked(i) ==
    gamesRun.reviews[i] # "unasked" \/ gamesRun.descriptions[i] # "unasked"

\* C20: a review or description request exists only once every store search
\* of the backfill has settled, and only for a game whose steamAppId is not
\* null after the backfill; a game left with a null steamAppId has no such
\* request and is answered with steamReviews = null and steamDescription = null.
C20_EnrichmentAfterBackfill ==
    /\ \A i \in DOMAIN gamesRun.games :
          EnrichmentAsked(i) =>
             /\ \A j \in DOMAIN gamesRun.searches : gamesRun.searches[j] # "pending"
             /\ gamesRun.games[i].steamAppId # Null
    /\ gamesRun.pc \in {"enrich", "done"} =>
          \A i \in DOMAIN gamesRun.games :
             gamesRun.games[i].steamAppId = Null => ~EnrichmentAsked(i)
    /\ \A k \in DOMAIN gamesRun.list :
          gamesRun.list[k].steamAppId = Null =>
             /\ gamesRun.list[k].steamReviews = NoReviews
             /\ gamesRun.list[k].steamDescription = Null

\* Doom's store search found nothing, so no request was made for it and it is
\* answered with null fields; Portal's requests were made after that search
\* had settled
C20_Witness ==
    /\ gamesRun.pc = "done"
    /\ \E i, j \in DOMAIN gamesRun.games :
          /\ gamesRun.games[i].name = "Doom"
          /\ gamesRun.searches[i] = "noItems"
          /\ gamesRun.games[i].steamAppId = Null
          /\ ~EnrichmentAsked(i)
          /\ gamesRun.games[j].name = "Portal"
          /\ gamesRun.reviews[j] = "ok"
          /\ gamesRun.descriptions[j] = "ok"
    /\ \E k \in DOMAIN gamesRun.list :
          gamesRun.list[k].name = "Doom" /\ gamesRun.list[k].steamReviews = NoReviews

\* the store id the search of the kind settles on for the games of the model:
\* the item named like the game in other case (id 50) when the reply has
\* one, else the first item (id 70), nothing when there is no item
IdSearched(kind) ==
    CASE kind = "exact" -> "50"
      [] kind = "other" -> "70"
      [] OTHER -> Null

LowercasedPair(album) == <<Lower(album.name), Lower(album.artist)>>

\* the place of (rank, genre) in the order of the round-robin visit
VisitOrder(rank, g) == (rank - 1) * Len(Genres) + g

\* the (rank, genre) places at which the genre lists hold the pair
PlacesOf(pair) ==
    {VisitOrder(r, g) : r \in 1..MaxChartRank, g \in DOMAIN Genres} \cap
    UNION {{VisitOrder(r, g) : r \in {q \in DOMAIN topCall.genreResults[g] :
                                         LowercasedPair(topCall.genreResults[g][q]) = pair}} :
             g \in DOMAIN Genres}

\* the first place at which the round-robin visit meets the pair
FirstPlace(pair) == CHOOSE p \in PlacesOf(pair) : \A q \in PlacesOf(pair) : p <= q

\* the distinct pairs the genre lists hold together
AllPairs ==
    UNION {{LowercasedPair(topCall.genreResults[g][r]) : r \in DOMAIN topCall.genreResults[g]} :
             g \in DOMAIN Genres}

\* C22: topAlbums has at most 20 entries with pairwise different lowercased
\* (name, artist) pairs, each a pair of the genre lists; the entries are in
\* the order in which the visit by rank and, within a rank, by genre first
\* meets them, no pair met earlier than the last entry is left out, and the
\* list has fewer than 20 entries only when it holds every pair.
C22_TopAlbumsRoundRobin ==
    topCall.done =>
        \* first is tabulated once: @@ yields the function as a table
        LET first == [pair \in AllPairs |-> FirstPlace(pair)] @@ << >>
            taken == [i \in DOMAIN topCall.topAlbums |->
                         LowercasedPair(topCall.topAlbums[i])]
        IN /\ Len(taken) <= 20
           /\ \A i \in DOMAIN taken : taken[i] \in AllPairs
           /\ \A i, j \in DOMAIN taken :
                 i < j => taken[i] # taken[j] /\ first[taken[i]] < first[taken[j]]
           /\ \A pair \in AllPairs :
                 \/ \E i \in DOMAIN taken : taken[i] = pair
                 \/ /\ Len(taken) = 20
                    /\ first[pair] > first[taken[20]]
           /\ Len(taken) < 20 => Cardinality(AllPairs) < 20

\* all eight genres list three albums, the pop list echoing the rock list in
\* other case: of the 21 pairs the first 20 are taken
C22_Witness ==
    /\ topCall.done
    /\ \A g \in DOMAIN Genres : Len(topCall.genreResults[g]) = 3
    /\ topCall.genreResults[5][1].artist = "abba"
    /\ Cardinality(AllPairs) = 21
    /\ Len(topCall.topAlbums) = 20

\* the top result of the reply carries a release date
CarriesReleaseDate(reply) ==
    reply.kind = "ok" /\ reply.releaseDate = "2024-05-03T07:00:00Z"

\* C23: fetchITunesAlbumInfo makes its queries one at a time in the order
\* artist + album, album alone, artist + album without the parenthetical;
\* it makes no query after one whose top result carries a release date and
\* returns that result's artwork and date; when none of the three does, it
\* returns {artwork: null, releaseDate: null}.
C23_ITunesVariantsInOrder ==
    /\ Len(itunes.log) <= 3
    /\ \A k \in DOMAIN itunes.log :
          /\ k = 1 => itunes.log[k].query = itunes.artist \o " " \o itunes.album
          /\ k = 2 => itunes.log[k].query = itunes.album
          /\ k = 3 => itunes.log[k].query = itunes.artist \o " Gold"
          /\ k < Len(itunes.log) => ~CarriesReleaseDate(itunes.log[k].reply)
    /\ itunes.pc = "querying" =>
          \A k \in DOMAIN itunes.log : ~CarriesReleaseDate(itunes.log[k].reply)
    /\ itunes.pc = "returned" =>
          LET last == itunes.log[Len(itunes.log)].reply IN
          IF CarriesReleaseDate(last)
          THEN itunes.result =
                  [artwork |-> IF last.artworkUrl100 = Null THEN Null ELSE "a/300x300.jpg",
                   releaseDate |-> "2024-05-03"]
          ELSE Len(itunes.log) = 3 /\ itunes.result = [artwork |-> Null, releaseDate |-> Null]

\* the first query threw, the second had a result without a date, the third
\* (the name without "(Deluxe)") had a dated result, which is returned
C23_Witness ==
    /\ itunes.pc = "returned"
    /\ itunes.album = "Gold (Deluxe)"
    /\ [k \in DOMAIN itunes.log |-> itunes.log[k].query] =
          <<"ABBA Gold (Deluxe)", "Gold (Deluxe)", "ABBA Gold">>
    /\ itunes.log[1].reply.kind = "throws"
    /\ itunes.log[2].reply.kind = "ok" /\ itunes.log[2].reply.releaseDate = Null
    /\ itunes.result = [artwork |-> "a/300x300.jpg", releaseDate |-> "2024-05-03"]

\* C24: over the life of the process at most one artist.getinfo call is
\* issued for a lowercased artist name, also when album-feed requests overlap.
C24_OneCallPerArtist == \A k \in ArtistKeys : hist.calls[k] <= 1

\* C25: any two requests sent to MusicBrainz through rateLimitedFetch are
\* started at least 1000 ms apart, also when the calls are concurrent.
C25_StartsSpacedOut ==
    \A i, j \in DOMAIN mb.starts :
        i < j => mb.starts[j] - mb.starts[i] >= MBMinGapMs

\* C26: a POST /api/dismissed for a category in {game, movie, album} answers
\* with a list that contains the item id, and every later feed response of
\* that category omits the item with that id, with or without a database; a
\* POST for any other category answers 400 and changes nothing.
C26_DismissalTakesEffect ==
    \A e \in dismissLog :
        /\ e.category \in {"game", "movie", "album"}
        /\ e.listed
        /\ (/\ feedCall.feed \in ItemFeeds
            /\ resp.status = 200
            /\ CategoryOf(feedCall.feed) = e.category)
               => \A i \in DOMAIN resp.items :
                      IdString(feedCall.feed, resp.items[i]) # e.itemId

\* the same with a database configured: holds
C26_WithDatabase == pool => C26_DismissalTakesEffect

\* the stored items with the given category and id
StoredAs(all, category, id) ==
    {i \in DOMAIN all : all[i].category = category /\ all[i].id = id}

\* the request answered by this step of the store
Answered(op) ==
    /\ watched'.ops = watched.ops + 1
    /\ watched'.last.op = op
    /\ watched'.last.status = 200

\* C27: the store never holds two items with the same (category, id); an add
\* of a stored (category, id) leaves the store as it is; a delete removes the
\* item with that (category, id) and no other item, and a rating changes the
\* number and the keys of the items in no way.
C27_OneItemPerKey ==
    [][/\ \A i, j \in DOMAIN watched'.items :
             (/\ watched'.items[i].category = watched'.items[j].category
              /\ watched'.items[i].id = watched'.items[j].id) => i = j
       /\ (/\ Answered("add")
           /\ StoredAs(watched.items, watched'.last.category, watched'.last.id) # {})
             => watched'.items = watched.items
       /\ Answered("delete") =>
             /\ StoredAs(watched'.items, watched'.last.category, watched'.last.id) = {}
             /\ \A i \in DOMAIN watched.items :
                   i \notin StoredAs(watched.items, watched'.last.category, watched'.last.id)
                       => \E j \in DOMAIN watched'.items :
                              watched'.items[j] = watched.items[i]
             /\ Len(watched'.items) =
                    Len(watched.items)
                    - Cardinality(StoredAs(watched.items, watched'.last.category,
                                           watched'.last.id))]_vars

\* the movie with id 1 was stored with title A and rated 5; an add of the same
\* movie with title B has been answered and the store is as it was
C27_Witness ==
    /\ watched.ops = 3
    /\ watched.last = WatchedReply("add", "movie", "1", 200)
    /\ watched.items = <<[id |-> "1", category |-> "movie", title |-> "A",
                          addedAt |-> 1, rating |-> IntRating(5)]>>

\* a rating that the store may hold
StorableRating(rating) ==
    rating.kind = "null" \/ (rating.kind = "int" /\ rating.n \in 1..5)

\* C28: every stored rating is null or an integer from 1 to 5; an item that an
\* add stores has rating null; a PATCH of the rating with any other value, or
\* with an invalid category, answers 400 and leaves the store as it is; a
\* valid PATCH changes the rating of the item with that (category, id) and
\* nothing else, and nothing at all when no such item is stored.
C28_RatingsValid ==
    [][/\ \A i \in DOMAIN watched'.items : StorableRating(watched'.items[i].rating)
       /\ Answered("add") =>
             \A j \in DOMAIN watched'.items :
                 (\A i \in DOMAIN watched.items : watched.items[i] # watched'.items[j])
                     => watched'.items[j].rating = NullRating
       /\ (watched'.ops = watched.ops + 1 /\ watched'.last.op = "rate") =>
             IF \/ watched'.last.category \notin {"movie", "tv", "album", "book"}
                \/ ~StorableRating(watched'.last.rating)
             THEN watched'.last.status = 400 /\ watched'.items = watched.items
             ELSE /\ watched'.last.status = 200
                  /\ Len(watched'.items) = Len(watched.items)
                  /\ \A i \in DOMAIN watched.items :
                        IF /\ watched.items[i].category = watched'.last.category
                           /\ watched.items[i].id = watched'.last.id
                        THEN watched'.items[i] =
                                 [watched.items[i] EXCEPT !.rating = watched'.last.rating]
                        ELSE watched'.items[i] = watched.items[i]]_vars

\* the movie with id 1 is stored and was rated 5; a rating of 6 for it has
\* just been answered 400
C28_Witness ==
    /\ watched.last = [WatchedReply("rate", "movie", "1", 400) EXCEPT !.rating = IntRating(6)]
    /\ Len(watched.items) = 1
    /\ watched.items[1].category = "movie"
    /\ watched.items[1].id = "1"
    /\ watched.items[1].rating = IntRating(5)

\* this step is the synchronous part of a callback
CallbackStep == oauth'.callbacks = oauth.callbacks + 1

\* this step passes a code on to exchangeCodeForTokens
ExchangeStarted == Len(oauth'.exchanges) = Len(oauth.exchanges) + 1

\* state is non-empty, is the state the most recent login issued, and that
\* login's state has not been accepted before
CurrentState(state) ==
    /\ state # ""
    /\ oauth.issued # << >>
    /\ state = oauth.issued[Len(oauth.issued)]
    /\ \A i \in DOMAIN oauth.exchanges : oauth.exchanges[i].login # Len(oauth.issued)

\* C29 as stated: a code is exchanged only with the non-empty state of the most
\* recent login, no issued state is accepted twice, and a callback whose state
\* is missing, stale or reused answers 400 and exchanges nothing.
C29_BadStateAnswers400 ==
    [][CallbackStep =>
          /\ ExchangeStarted => CurrentState(oauth'.last.state)
          /\ ~CurrentState(oauth'.last.state) =>
                ~ExchangeStarted /\ oauth'.last.status = 400]_vars

\* C29, amended: the same, but a callback whose state is missing, stale or
\* reused answers 500 when the credentials are not configured, the redirect to
\* the music page when it carries an error parameter, and 400 otherwise; in
\* none of these cases is a code exchanged.
C29_StateAcceptedOnce ==
    [][CallbackStep =>
          /\ ExchangeStarted => CurrentState(oauth'.last.state)
          /\ \A i, j \in DOMAIN oauth'.exchanges :
                oauth'.exchanges[i].login = oauth'.exchanges[j].login => i = j
          /\ ~CurrentState(oauth'.last.state) =>
                /\ ~ExchangeStarted
                /\ oauth'.last.status =
                      IF oauth.creds # "both" THEN 500
                      ELSE IF oauth'.last.error # "" THEN 302
                      ELSE 400]_vars

\* the state s1 of the one login was accepted with a code, and a second
\* callback with s1 and a code has been answered 400
C29_Witness ==
    /\ oauth.issued = <<"s1">>
    /\ Len(oauth.exchanges) = 1
    /\ oauth.exchanges[1].state = "s1"
    /\ oauth.last = OAuthReply("callback", "c", "s1", "", 400)

\* C30: at any time at most one artist is in the 'playing' state and at most
\* one audio element is playing.
C30_OnePlaying ==
    /\ Cardinality({a \in PlayerArtists : player.artistStates[a] = "playing"}) <= 1
    /\ Cardinality({i \in DOMAIN player.audios : player.audios[i].playing}) <= 1

====
